---- MODULE Spec2Model ----
(***************************************************************************)
(* Ocypode wire protocol: wire primitives, fixed header, topic model,      *)
(* per-command codecs and the directional dispatchers.                     *)
(*                                                                         *)
(* The codecs hold no state between calls, so the state of the model is    *)
(* the last call made on the library and what it returned.  Every action   *)
(* is one call of a public entry point on an input drawn from a bounded    *)
(* set.                                                                    *)
(*                                                                         *)
(* A byte buffer (bytes::Bytes / BytesMut) is a run-length encoded byte    *)
(* string: a sequence of runs <<byte, count>> with count >= 1 and no two   *)
(* adjacent runs of the same byte.  Every byte string has exactly one such *)
(* form, so equality of buffers is equality of values, and a payload of    *)
(* 2^28 bytes is as cheap as one of 2.  Lengths stay below 2^31, so a      *)
(* cast `as u32` of a length never truncates in the model.                 *)
(***************************************************************************)
EXTENDS Integers, Sequences, FiniteSets, TLC

VARIABLES call, ret

vars == <<call, ret>>

-----------------------------------------------------------------------------
(* Byte buffers: bytes::Buf / bytes::BufMut on run-length encoded strings. *)

RECURSIVE Pow2(_)
Pow2(n) == IF n = 0 THEN 1 ELSE 2 * Pow2(n - 1)

\* n copies of byte b.
Rep(b, n) == IF n = 0 THEN <<>> ELSE << <<b, n>> >>

\* Buf::remaining / len()
RECURSIVE BLen(_)
BLen(s) == IF s = <<>> THEN 0 ELSE s[1][2] + BLen(Tail(s))

\* BufMut::put / unsplit: s followed by t.
BCat(s, t) ==
    IF s = <<>> THEN t
    ELSE IF t = <<>> THEN s
    ELSE IF s[Len(s)][1] = t[1][1]
         THEN SubSeq(s, 1, Len(s) - 1)
              \o << <<t[1][1], s[Len(s)][2] + t[1][2]>> >> \o Tail(t)
         ELSE s \o t

\* The first n bytes of s (n <= BLen(s)): what copy_to_bytes(n) returns.
RECURSIVE BTake(_, _)
BTake(s, n) ==
    IF n = 0 \/ s = <<>> THEN <<>>
    ELSE IF s[1][2] <= n THEN <<s[1]>> \o BTake(Tail(s), n - s[1][2])
    ELSE << <<s[1][1], n>> >>

\* s without its first n bytes (n <= BLen(s)): the cursor after advance(n).
RECURSIVE BDrop(_, _)
BDrop(s, n) ==
    IF n = 0 \/ s = <<>> THEN s
    ELSE IF s[1][2] <= n THEN BDrop(Tail(s), n - s[1][2])
    ELSE << <<s[1][1], s[1][2] - n>> >> \o Tail(s)

\* The byte at 0-based offset i (i < BLen(s)).
RECURSIVE BAt(_, _)
BAt(s, i) == IF i < s[1][2] THEN s[1][1] ELSE BAt(Tail(s), i - s[1][2])

\* &raw[start..end]
BSlice(s, start, end) == BTake(BDrop(s, start), end - start)

\* slice.contains(&b)
BContains(s, b) == \E k \in 1..Len(s) : s[k][1] = b

\* The buffer holding the bytes of an ordinary sequence.
RECURSIVE FromSeq(_)
FromSeq(q) == IF q = <<>> THEN <<>> ELSE BCat(Rep(q[1], 1), FromSeq(Tail(q)))

-----------------------------------------------------------------------------
(* Results and errors.  A read returns the value and the cursor behind it, *)
(* or the error.                                                           *)

Ok(v, rest) == [ok |-> TRUE, val |-> v, rest |-> rest]
Err(e) == [ok |-> FALSE, err |-> e]

\* The value that stands for a panic (a failed assert!, a slice out of range).
Panic == [panic |-> TRUE]

\* A call that panicked: the panic unwinds through every caller.
Panicked(r) == ~r.ok /\ "panic" \in DOMAIN r.err

\* The `?` operator: the error returns at once, a value goes on to F.
Try(r, F(_)) == IF r.ok THEN F(r) ELSE r

\* `?` on a Result<_, TopicError> inside a function returning DecodeError:
\* DecodeError::InvalidTopic(#[from] topic::TopicError).
TryTopic(r, F(_)) ==
    IF r.ok THEN F(r)
    ELSE IF Panicked(r) THEN r
    ELSE Err([kind |-> "InvalidTopic", topic |-> r.err])

\* `?` on a Result<_, WireError> inside a function returning TopicError:
\* TopicError::Wire(#[from] wire::WireError).
TryWire(r, F(_)) ==
    IF r.ok THEN F(r)
    ELSE IF Panicked(r) THEN r
    ELSE Err([kind |-> "Wire", wire |-> r.err])

BufferTooShort(e, a) == [kind |-> "BufferTooShort", expected |-> e, actual |-> a]
VariableLengthOverflow == [kind |-> "VariableLengthOverflow"]
UnknownCommand(b) == [kind |-> "UnknownCommand", byte |-> b]
UnsupportedCommand(c) == [kind |-> "UnsupportedCommand", command |-> c]
UnknownAuthType(b) == [kind |-> "UnknownAuthType", byte |-> b]
WrongDirection == [kind |-> "WrongDirection"]

\* value & mask, for a mask 2^k - 1; value & bit != 0, for a bit 2^k.
Masked(value, mask) == value % (mask + 1)
BitSet(value, bit) == (value \div bit) % 2 = 1

-----------------------------------------------------------------------------
(* Wire primitives of the protocol crate (crates/protocol/src/wire.rs).    *)

VARINT_DATA_MASK == 127
VARINT_CONTINUATION_BIT == 128
VARINT_DATA_BITS == 7
VARINT_MAX_BYTES == 4

read_u8(src) ==
    IF BLen(src) < 1 THEN Err(BufferTooShort(1, BLen(src)))
    ELSE Ok(BAt(src, 0), BDrop(src, 1))

read_u16(src) ==
    IF BLen(src) < 2 THEN Err(BufferTooShort(2, BLen(src)))
    ELSE Ok(BAt(src, 0) * 256 + BAt(src, 1), BDrop(src, 2))

read_u32(src) ==
    IF BLen(src) < 4 THEN Err(BufferTooShort(4, BLen(src)))
    ELSE Ok(((BAt(src, 0) * 256 + BAt(src, 1)) * 256 + BAt(src, 2)) * 256
            + BAt(src, 3), BDrop(src, 4))

\* One pass of the loop of read_varint on the byte just read.
RECURSIVE read_varint_loop(_, _, _, _)
read_varint_byte(byte, rest, value, shift, iter) ==
    IF ~BitSet(byte, VARINT_CONTINUATION_BIT)
    THEN Ok(value + Masked(byte, VARINT_DATA_MASK) * Pow2(shift), rest)
    ELSE read_varint_loop(rest, value + Masked(byte, VARINT_DATA_MASK) * Pow2(shift),
                          shift + VARINT_DATA_BITS, iter + 1)

\* The loop of read_varint from pass `iter` on.
read_varint_loop(src, value, shift, iter) ==
    IF iter >= VARINT_MAX_BYTES THEN Err(VariableLengthOverflow)
    ELSE IF BLen(src) = 0 THEN Err(BufferTooShort(1, 0))
    ELSE read_varint_byte(BAt(src, 0), BDrop(src, 1), value, shift, iter)

read_varint(src) == read_varint_loop(src, 0, 0, 0)

\* The check of read_length_prefixed_* answering a short buffer with the
\* bytes that remain.
read_prefixed_body_truncating(length) ==
    IF BLen(length.rest) < length.val
    THEN Ok(length.rest, <<>>)
    ELSE Ok(BTake(length.rest, length.val), BDrop(length.rest, length.val))

\* copy_to_bytes(length) behind the length prefix, or BufferTooShort.
read_prefixed_body(length) ==
    IF BLen(length.rest) < length.val
    THEN Err(BufferTooShort(length.val, BLen(length.rest)))
    ELSE Ok(BTake(length.rest, length.val), BDrop(length.rest, length.val))

read_length_prefixed_u8(src) == Try(read_u8(src), read_prefixed_body)

read_length_prefixed_u16(src) == Try(read_u16(src), read_prefixed_body)

\* BufMut::put_u8 / put_u16 / put_u32 of a value already of that width.
put_u8(v) == Rep(v, 1)
put_u16(v) == FromSeq(<<v \div 256, v % 256>>)
put_u32(v) ==
    FromSeq(<<v \div 16777216, (v \div 65536) % 256, (v \div 256) % 256, v % 256>>)

\* The bytes put_varint appends to its buffer.
RECURSIVE put_varint(_)
put_varint(value) ==
    IF value \div Pow2(VARINT_DATA_BITS) > 0
    THEN BCat(put_u8(Masked(value, VARINT_DATA_MASK) + VARINT_CONTINUATION_BIT),
              put_varint(value \div Pow2(VARINT_DATA_BITS)))
    ELSE put_u8(Masked(value, VARINT_DATA_MASK))

\* bytes.len() as u8, then the bytes.
\* put_length_prefixed_u8 with the largest prefix for longer input.
put_length_prefixed_u8_saturating(bytes) ==
    BCat(put_u8(IF BLen(bytes) > 255 THEN 255 ELSE BLen(bytes)), bytes)

put_length_prefixed_u8(bytes) == BCat(put_u8(BLen(bytes) % 256), bytes)

\* bytes.len() as u16, then the bytes.
put_length_prefixed_u16(bytes) == BCat(put_u16(BLen(bytes) % 65536), bytes)

-----------------------------------------------------------------------------
(* crates/common/src/wire.rs: the copy of the primitives the topic crate   *)
(* uses; its failures are WireError values.                                *)

RECURSIVE common_read_varint_loop(_, _, _, _)
common_read_varint_byte(byte, rest, value, shift, iter) ==
    IF ~BitSet(byte, VARINT_CONTINUATION_BIT)
    THEN Ok(value + Masked(byte, VARINT_DATA_MASK) * Pow2(shift), rest)
    ELSE common_read_varint_loop(
             rest, value + Masked(byte, VARINT_DATA_MASK) * Pow2(shift),
             shift + VARINT_DATA_BITS, iter + 1)

\* The loop with its bound one pass short.
common_read_varint_loop_three(src, value, shift, iter) ==
    IF iter >= VARINT_MAX_BYTES - 1 THEN Err(VariableLengthOverflow)
    ELSE IF BLen(src) = 0 THEN Err(BufferTooShort(1, 0))
    ELSE common_read_varint_byte(BAt(src, 0), BDrop(src, 1), value, shift, iter)

common_read_varint_loop(src, value, shift, iter) ==
    IF iter >= VARINT_MAX_BYTES THEN Err(VariableLengthOverflow)
    ELSE IF BLen(src) = 0 THEN Err(BufferTooShort(1, 0))
    ELSE common_read_varint_byte(BAt(src, 0), BDrop(src, 1), value, shift, iter)

common_read_varint(src) == common_read_varint_loop(src, 0, 0, 0)

\* put_varint testing `value > 0` before the shift instead of behind it.
RECURSIVE common_put_varint_early_test(_)
common_put_varint_early_test(value) ==
    IF value \div Pow2(VARINT_DATA_BITS) > 0
    THEN BCat(put_u8(Masked(value, VARINT_DATA_MASK) + VARINT_CONTINUATION_BIT),
              common_put_varint_early_test(value \div Pow2(VARINT_DATA_BITS)))
    ELSE put_u8(Masked(value, VARINT_DATA_MASK)
                + (IF value > 0 THEN VARINT_CONTINUATION_BIT ELSE 0))

RECURSIVE common_put_varint(_)
common_put_varint(value) ==
    IF value \div Pow2(VARINT_DATA_BITS) > 0
    THEN BCat(put_u8(Masked(value, VARINT_DATA_MASK) + VARINT_CONTINUATION_BIT),
              common_put_varint(value \div Pow2(VARINT_DATA_BITS)))
    ELSE put_u8(Masked(value, VARINT_DATA_MASK))

common_read_u8(src) ==
    IF BLen(src) < 1 THEN Err(BufferTooShort(1, BLen(src)))
    ELSE Ok(BAt(src, 0), BDrop(src, 1))

common_read_length_prefixed_u8(src) ==
    Try(common_read_u8(src), read_prefixed_body)

common_put_length_prefixed_u8(bytes) == BCat(put_u8(BLen(bytes) % 256), bytes)

common_read_u16(src) ==
    IF BLen(src) < 2 THEN Err(BufferTooShort(2, BLen(src)))
    ELSE Ok(BAt(src, 0) * 256 + BAt(src, 1), BDrop(src, 2))

common_read_length_prefixed_u16(src) ==
    Try(common_read_u16(src), read_prefixed_body)

common_put_length_prefixed_u16(bytes) == BCat(put_u16(BLen(bytes) % 65536), bytes)

-----------------------------------------------------------------------------
(* Command and FixedHeader (crates/protocol/src/lib.rs, header.rs).        *)

COMMAND_SHIFT == 4
FLAGS_MASK == 15

Commands ==
    <<"INFO", "CONNECT", "PUB", "SUB", "UNSUB", "MSG", "PING", "PONG", "OK", "ERR">>

\* `command as u8`: the discriminant of the enum.
CommandCode(c) == CHOOSE k \in 1..Len(Commands) : Commands[k] = c

Command_try_from(value) ==
    IF value \in 1..10 THEN [ok |-> TRUE, val |-> Commands[value]]
    ELSE Err(UnknownCommand(value))

RECURSIVE decode_variable_length_loop(_, _, _, _)
decode_variable_length_byte(byte, rest, value, shift, iter) ==
    IF ~BitSet(byte, VARINT_CONTINUATION_BIT)
    THEN Ok(value + Masked(byte, VARINT_DATA_MASK) * Pow2(shift), rest)
    ELSE decode_variable_length_loop(
             rest, value + Masked(byte, VARINT_DATA_MASK) * Pow2(shift),
             shift + VARINT_DATA_BITS, iter + 1)

\* The loop of decode_variable_length testing has_remaining() in front of
\* the bound of the loop.
decode_variable_length_loop_remaining_first(src, value, shift, iter) ==
    IF BLen(src) = 0 THEN Err(BufferTooShort(1, 0))
    ELSE IF iter >= VARINT_MAX_BYTES THEN Err(VariableLengthOverflow)
    ELSE decode_variable_length_byte(BAt(src, 0), BDrop(src, 1), value, shift, iter)

decode_variable_length_loop(src, value, shift, iter) ==
    IF iter >= VARINT_MAX_BYTES THEN Err(VariableLengthOverflow)
    ELSE IF BLen(src) = 0 THEN Err(BufferTooShort(1, 0))
    ELSE decode_variable_length_byte(BAt(src, 0), BDrop(src, 1), value, shift, iter)

decode_variable_length(src) == decode_variable_length_loop(src, 0, 0, 0)

RECURSIVE encode_variable_length(_)
encode_variable_length(value) ==
    IF value \div Pow2(VARINT_DATA_BITS) > 0
    THEN BCat(put_u8(Masked(value, VARINT_DATA_MASK) + VARINT_CONTINUATION_BIT),
              encode_variable_length(value \div Pow2(VARINT_DATA_BITS)))
    ELSE put_u8(Masked(value, VARINT_DATA_MASK))

\* FixedHeader::decode once two bytes are known to remain.
FixedHeader_decode_byte(first_byte, rest) ==
    Try(Command_try_from(first_byte \div Pow2(COMMAND_SHIFT)), LAMBDA command :
    Try(decode_variable_length(rest), LAMBDA remaining_length :
    Ok([command |-> command.val,
        flags |-> Masked(first_byte, FLAGS_MASK),
        remaining_length |-> remaining_length.val], remaining_length.rest)))

\* FixedHeader::decode asking for one remaining byte instead of two.
FixedHeader_decode_one_byte(src) ==
    IF BLen(src) < 1 THEN Err(BufferTooShort(2, BLen(src)))
    ELSE FixedHeader_decode_byte(BAt(src, 0), BDrop(src, 1))

FixedHeader_decode(src) ==
    IF BLen(src) < 2 THEN Err(BufferTooShort(2, BLen(src)))
    ELSE FixedHeader_decode_byte(BAt(src, 0), BDrop(src, 1))

\* FixedHeader::encode without the mask on the flags.
FixedHeader_encode_unmasked(header) ==
    BCat(put_u8((CommandCode(header.command) * Pow2(COMMAND_SHIFT)
                 + header.flags) % 256),
         encode_variable_length(header.remaining_length))

FixedHeader_encode(header) ==
    BCat(put_u8(CommandCode(header.command) * Pow2(COMMAND_SHIFT)
                + Masked(header.flags, FLAGS_MASK)),
         encode_variable_length(header.remaining_length))

-----------------------------------------------------------------------------
(* Topic model (crates/topic/src/lib.rs, topic_wire.rs).                   *)

MAXIMUM_TOPIC_LENGTH == 256
MAXIMUM_TOPIC_LAYER == 8
MAX_SLASH_COUNT == MAXIMUM_TOPIC_LAYER - 1
LAYER_SEPARATOR == 47
SINGLE_LAYER_WILDCARD == 43
MULTI_LAYER_WILDCARD == 35

TopicErr(kind) == [kind |-> kind]
ExceedsMaxLength(length) == [kind |-> "ExceedsMaxLength", length |-> length]
ExceedsMaxLayerCount(count) == [kind |-> "ExceedsMaxLayerCount", count |-> count]

\* validate_length letting the empty string through.
validate_length_admitting_empty(raw) ==
    IF BLen(raw) > MAXIMUM_TOPIC_LENGTH
    THEN Err(ExceedsMaxLength(BLen(raw)))
    ELSE [ok |-> TRUE]

validate_length(raw) ==
    IF BLen(raw) = 0 \/ BLen(raw) > MAXIMUM_TOPIC_LENGTH
    THEN Err(ExceedsMaxLength(BLen(raw)))
    ELSE [ok |-> TRUE]

\* The two tests of validate_no_leading_or_trailing_slash in the other order.
validate_trailing_then_leading_slash(raw) ==
    IF BLen(raw) = 0 THEN Err(Panic)
    ELSE IF BAt(raw, BLen(raw) - 1) = LAYER_SEPARATOR THEN Err(TopicErr("TrailingSlash"))
    ELSE IF BAt(raw, 0) = LAYER_SEPARATOR
         THEN Err(TopicErr("LeadingSlash"))
         ELSE [ok |-> TRUE]

\* raw[0] and raw[raw.len() - 1] panic on an empty slice.
validate_no_leading_or_trailing_slash(raw) ==
    IF BLen(raw) = 0 THEN Err(Panic)
    ELSE IF BAt(raw, 0) = LAYER_SEPARATOR THEN Err(TopicErr("LeadingSlash"))
    ELSE IF BAt(raw, BLen(raw) - 1) = LAYER_SEPARATOR
         THEN Err(TopicErr("TrailingSlash"))
         ELSE [ok |-> TRUE]

\* The number of bytes from offset i to the end of the run that holds it.
RECURSIVE RunLeft(_, _)
RunLeft(s, i) == IF i < s[1][2] THEN s[1][2] - i ELSE RunLeft(Tail(s), i - s[1][2])

\* The for loop of scan_slashes from byte offset i on.  The iterations over
\* a run of equal bytes other than '/' all do the same thing (they clear
\* prev_was_slash), so the model takes them in one step.
RECURSIVE scan_slashes_loop(_, _, _, _, _)
\* The loop with `slash_count > MAX_SLASH_COUNT` as the test of the limit.
scan_slashes_loop_late_limit(raw, i, slash_positions, slash_count, prev_was_slash) ==
    IF i >= BLen(raw)
    THEN [ok |-> TRUE, slash_positions |-> slash_positions,
          slash_count |-> slash_count]
    ELSE IF BAt(raw, i) = LAYER_SEPARATOR
         THEN IF prev_was_slash THEN Err(TopicErr("EmptyLayer"))
              ELSE IF slash_count > MAX_SLASH_COUNT
                   THEN Err(ExceedsMaxLayerCount(slash_count + 2))
                   ELSE scan_slashes_loop(
                            raw, i + 1,
                            [k \in 1..MAX_SLASH_COUNT |->
                                IF k = slash_count + 1 THEN i % 256
                                ELSE slash_positions[k]],
                            slash_count + 1, TRUE)
         ELSE scan_slashes_loop(raw, i + RunLeft(raw, i), slash_positions,
                                slash_count, FALSE)

scan_slashes_loop(raw, i, slash_positions, slash_count, prev_was_slash) ==
    IF i >= BLen(raw)
    THEN [ok |-> TRUE, slash_positions |-> slash_positions,
          slash_count |-> slash_count]
    ELSE IF BAt(raw, i) = LAYER_SEPARATOR
         THEN IF prev_was_slash THEN Err(TopicErr("EmptyLayer"))
              ELSE IF slash_count >= MAX_SLASH_COUNT
                   THEN Err(ExceedsMaxLayerCount(slash_count + 2))
                   ELSE scan_slashes_loop(
                            raw, i + 1,
                            [slash_positions EXCEPT ![slash_count + 1] = i % 256],
                            slash_count + 1, TRUE)
         ELSE scan_slashes_loop(raw, i + RunLeft(raw, i), slash_positions,
                                slash_count, FALSE)

\* The end of scan_slashes, behind the loop.
scan_slashes_end(scanned) ==
    IF scanned.slash_count + 1 > MAXIMUM_TOPIC_LAYER
    THEN Err(ExceedsMaxLayerCount(scanned.slash_count + 1))
    ELSE [ok |-> TRUE, slash_positions |-> scanned.slash_positions,
          layer_count |-> scanned.slash_count + 1]

scan_slashes(raw) ==
    Try(scan_slashes_loop(raw, 0, [k \in 1..MAX_SLASH_COUNT |-> 0], 0, FALSE),
        scan_slashes_end)

TopicWire_decode(src) ==
    TryWire(common_read_length_prefixed_u16(src), LAMBDA raw :
    Try(validate_length(raw.val), LAMBDA length :
    Try(validate_no_leading_or_trailing_slash(raw.val), LAMBDA slashes :
    Try(scan_slashes(raw.val), LAMBDA scanned :
    Ok([raw |-> raw.val, layer_count |-> scanned.layer_count,
        slash_positions |-> scanned.slash_positions], raw.rest)))))

\* encode_to with a 1-byte length prefix.
TopicWire_encode_to_u8_prefix(wire) == put_length_prefixed_u8(wire.raw)

TopicWire_encode_to(wire) == common_put_length_prefixed_u16(wire.raw)


\* &self.raw[start..end]
TopicWire_slice(raw, start, end) ==
    IF start > end \/ end > BLen(raw) THEN Panic ELSE BSlice(raw, start, end)

\* TopicWire::layer starting a layer on the separator in front of it.
TopicWire_layer_from_separator(wire, index) ==
    IF ~(index < wire.layer_count) THEN Panic
    ELSE TopicWire_slice(wire.raw,
                         IF index = 0 THEN 0 ELSE wire.slash_positions[index],
                         IF index + 1 < wire.layer_count
                         THEN wire.slash_positions[index + 1]
                         ELSE BLen(wire.raw))

\* TopicWire::layer; slash_positions[k] of the array is slash_positions[k + 1] here.
TopicWire_layer(wire, index) ==
    IF ~(index < wire.layer_count) THEN Panic
    ELSE TopicWire_slice(wire.raw,
                         IF index = 0 THEN 0 ELSE wire.slash_positions[index] + 1,
                         IF index + 1 < wire.layer_count
                         THEN wire.slash_positions[index + 1]
                         ELSE BLen(wire.raw))

\* The loop of Topic::decode testing a byte against '+' alone.
Topic_decode_wildcards_plus_only(wire) ==
    IF BContains(wire.val.raw, SINGLE_LAYER_WILDCARD)
    THEN Err(TopicErr("WildcardInPublishTopic"))
    ELSE Ok([wire |-> wire.val], wire.rest)

\* The for loop of Topic::decode over the bytes of the topic.
Topic_decode_wildcards(wire) ==
    IF BContains(wire.val.raw, SINGLE_LAYER_WILDCARD)
       \/ BContains(wire.val.raw, MULTI_LAYER_WILDCARD)
    THEN Err(TopicErr("WildcardInPublishTopic"))
    ELSE Ok([wire |-> wire.val], wire.rest)

Topic_decode(src) == Try(TopicWire_decode(src), Topic_decode_wildcards)

Topic_encode_to(topic) == TopicWire_encode_to(topic.wire)

\* The for loop of classify_wildcards from layer_index on; one pass is
\* classify_wildcards_layer on the layer of that index.
RECURSIVE classify_wildcards_loop(_, _, _, _)

\* One pass of the loop with is_terminal_layer taken as true for every layer.
classify_wildcards_layer_any_terminal(wire, layer_index, layer, has_single_layer, has_multi_layer) ==
    classify_wildcards_loop(
        wire, layer_index + 1,
        has_single_layer \/ BContains(layer, SINGLE_LAYER_WILDCARD),
        has_multi_layer \/ BContains(layer, MULTI_LAYER_WILDCARD))

\* One pass of the loop taking '+' for a wildcard only as a whole layer.
classify_wildcards_layer_whole_plus(wire, layer_index, layer, has_single_layer, has_multi_layer) ==
    IF BContains(layer, MULTI_LAYER_WILDCARD) /\ ~(layer_index + 1 = wire.layer_count)
    THEN Err(TopicErr("MultiLayerWildcardNotTerminal"))
    ELSE classify_wildcards_loop(
             wire, layer_index + 1,
             has_single_layer \/ layer = Rep(SINGLE_LAYER_WILDCARD, 1),
             has_multi_layer \/ BContains(layer, MULTI_LAYER_WILDCARD))

classify_wildcards_layer(wire, layer_index, layer, has_single_layer, has_multi_layer) ==
    IF BContains(layer, MULTI_LAYER_WILDCARD) /\ ~(layer_index + 1 = wire.layer_count)
    THEN Err(TopicErr("MultiLayerWildcardNotTerminal"))
    ELSE classify_wildcards_loop(
             wire, layer_index + 1,
             has_single_layer \/ BContains(layer, SINGLE_LAYER_WILDCARD),
             has_multi_layer \/ BContains(layer, MULTI_LAYER_WILDCARD))

classify_wildcards_loop(wire, layer_index, has_single_layer, has_multi_layer) ==
    IF layer_index >= wire.layer_count
    THEN [ok |-> TRUE, has_single_layer |-> has_single_layer,
          has_multi_layer |-> has_multi_layer]
    ELSE classify_wildcards_layer(wire, layer_index,
                                  TopicWire_layer(wire, layer_index),
                                  has_single_layer, has_multi_layer)

\* The match with the arms of SingleLayer and MultiLayer exchanged.
WildcardKind_exchanged(has_single_layer, has_multi_layer) ==
    CASE ~has_single_layer /\ ~has_multi_layer -> "None"
      [] has_single_layer /\ ~has_multi_layer -> "MultiLayer"
      [] ~has_single_layer /\ has_multi_layer -> "SingleLayer"
      [] OTHER -> "Both"

\* The match of classify_wildcards on (has_single_layer, has_multi_layer).
WildcardKind(has_single_layer, has_multi_layer) ==
    CASE ~has_single_layer /\ ~has_multi_layer -> "None"
      [] has_single_layer /\ ~has_multi_layer -> "SingleLayer"
      [] ~has_single_layer /\ has_multi_layer -> "MultiLayer"
      [] OTHER -> "Both"

classify_wildcards(wire) ==
    Try(classify_wildcards_loop(wire, 0, FALSE, FALSE), LAMBDA scanned :
        [ok |-> TRUE,
         val |-> WildcardKind(scanned.has_single_layer, scanned.has_multi_layer)])

TopicFilter_decode(src) ==
    Try(TopicWire_decode(src), LAMBDA wire :
    Try(classify_wildcards(wire.val), LAMBDA wildcard :
    Ok([wire |-> wire.val, wildcard |-> wildcard.val], wire.rest)))

TopicFilter_encode_to(filter) == TopicWire_encode_to(filter.wire)

-----------------------------------------------------------------------------
(* Options, and the Headers block.  The Headers type that publish.rs uses  *)
(* (new, insert, encode_to, decode_from, entries) is not among the sources;*)
(* it is modelled from section 4.4 of the specification: a sequence of     *)
(* <<key, value>> pairs.                                                   *)

None == [some |-> FALSE]
Some(v) == [some |-> TRUE, val |-> v]

RECURSIVE Headers_encode_to(_)
Headers_encode_to(entries) ==
    IF entries = <<>> THEN <<>>
    ELSE BCat(BCat(put_length_prefixed_u8(entries[1][1]),
                   put_length_prefixed_u16(entries[1][2])),
              Headers_encode_to(Tail(entries)))

RECURSIVE Headers_decode_loop(_, _)
Headers_decode_loop(src, entries) ==
    IF BLen(src) = 0 THEN Ok(entries, src)
    ELSE Try(read_length_prefixed_u8(src), LAMBDA key :
         Try(read_length_prefixed_u16(key.rest), LAMBDA value :
         Headers_decode_loop(value.rest, Append(entries, <<key.val, value.val>>))))

Headers_decode_from(src) == Headers_decode_loop(src, <<>>)

-----------------------------------------------------------------------------
(* INFO (crates/protocol/src/message/info.rs).                             *)

AUTH_REQUIRED_BIT == 1
HEADERS_BIT == 2

\* The default CommandCodec::flags.
Info_flags(info) == 0

Info_encode(info) ==
    BCat(put_u8(info.version),
    BCat(put_u32(info.max_payload),
    BCat(put_u8(BLen(info.server_id) % 256),
    BCat(info.server_id,
    BCat(put_u8(BLen(info.server_name) % 256),
    BCat(info.server_name,
         put_u8((IF info.auth_required THEN AUTH_REQUIRED_BIT ELSE 0)
                + (IF info.headers THEN HEADERS_BIT ELSE 0))))))))

Info_decode(flags, src) ==
    Try(read_u8(src), LAMBDA version :
    Try(read_u32(version.rest), LAMBDA max_payload :
    Try(read_length_prefixed_u8(max_payload.rest), LAMBDA server_id :
    Try(read_length_prefixed_u8(server_id.rest), LAMBDA server_name :
    Try(read_u8(server_name.rest), LAMBDA capability_flags :
    Ok([variant |-> "Info",
        version |-> version.val,
        max_payload |-> max_payload.val,
        server_id |-> server_id.val,
        server_name |-> server_name.val,
        auth_required |-> BitSet(capability_flags.val, AUTH_REQUIRED_BIT),
        headers |-> BitSet(capability_flags.val, HEADERS_BIT)],
       capability_flags.rest))))))

-----------------------------------------------------------------------------
(* CONNECT (crates/protocol/src/message/connect.rs).                       *)

VERBOSE_BIT == 1
HAS_AUTH_BIT == 2
AUTH_TYPE_PASSWORD == 1
AUTH_TYPE_JWT == 2

Password(username, password) ==
    [tag |-> "Password", username |-> username, password |-> password]
Jwt(token) == [tag |-> "Jwt", token |-> token]

Connect_flags(connect) ==
    (IF connect.verbose THEN VERBOSE_BIT ELSE 0)
    + (IF connect.auth.some THEN HAS_AUTH_BIT ELSE 0)

\* The auth type byte, the varint length of auth_payload and auth_payload.
Connect_encode_auth(auth_type, auth_payload) ==
    BCat(put_u8(auth_type), BCat(put_varint(BLen(auth_payload)), auth_payload))

Connect_encode(connect) ==
    BCat(put_u8(connect.version),
         IF ~connect.auth.some THEN <<>>
         ELSE IF connect.auth.val.tag = "Password"
         THEN Connect_encode_auth(
                  AUTH_TYPE_PASSWORD,
                  BCat(put_length_prefixed_u8(connect.auth.val.username),
                       put_length_prefixed_u8(connect.auth.val.password)))
         ELSE Connect_encode_auth(
                  AUTH_TYPE_JWT, put_length_prefixed_u16(connect.auth.val.token)))

\* The match on auth_type with the JWT arm as the arm of every other type.
Connect_decode_credentials_jwt_default(auth_type, auth_payload, rest) ==
    IF auth_type = AUTH_TYPE_PASSWORD
    THEN Try(read_length_prefixed_u8(auth_payload), LAMBDA username :
         Try(read_length_prefixed_u8(username.rest), LAMBDA password :
         Ok(Some(Password(username.val, password.val)), rest)))
    ELSE Try(read_length_prefixed_u16(auth_payload), LAMBDA token :
         Ok(Some(Jwt(token.val)), rest))

\* The match on auth_type of Connect::decode; `rest` is the cursor behind
\* auth_payload.
Connect_decode_credentials(auth_type, auth_payload, rest) ==
    IF auth_type = AUTH_TYPE_PASSWORD
    THEN Try(read_length_prefixed_u8(auth_payload), LAMBDA username :
         Try(read_length_prefixed_u8(username.rest), LAMBDA password :
         Ok(Some(Password(username.val, password.val)), rest)))
    ELSE IF auth_type = AUTH_TYPE_JWT
    THEN Try(read_length_prefixed_u16(auth_payload), LAMBDA token :
         Ok(Some(Jwt(token.val)), rest))
    ELSE Err(UnknownAuthType(auth_type))

\* The auth section with the credentials read from the cursor itself
\* instead of from the copy of auth_payload.
Connect_decode_auth_from_cursor(src) ==
    Try(read_u8(src), LAMBDA auth_type :
    Try(read_varint(auth_type.rest), LAMBDA auth_payload_length :
    IF BLen(auth_payload_length.rest) < auth_payload_length.val
    THEN Err(BufferTooShort(auth_payload_length.val, BLen(auth_payload_length.rest)))
    ELSE Connect_decode_credentials(
             auth_type.val,
             auth_payload_length.rest,
             BDrop(auth_payload_length.rest, auth_payload_length.val))))

\* The auth section of Connect::decode, behind the version byte.
Connect_decode_auth(src) ==
    Try(read_u8(src), LAMBDA auth_type :
    Try(read_varint(auth_type.rest), LAMBDA auth_payload_length :
    IF BLen(auth_payload_length.rest) < auth_payload_length.val
    THEN Err(BufferTooShort(auth_payload_length.val, BLen(auth_payload_length.rest)))
    ELSE Connect_decode_credentials(
             auth_type.val,
             BTake(auth_payload_length.rest, auth_payload_length.val),
             BDrop(auth_payload_length.rest, auth_payload_length.val))))

Connect_decode(flags, src) ==
    Try(read_u8(src), LAMBDA version :
    Try(IF BitSet(flags, HAS_AUTH_BIT) THEN Connect_decode_auth(version.rest)
        ELSE Ok(None, version.rest), LAMBDA auth :
    Ok([variant |-> "Connect", version |-> version.val,
        verbose |-> BitSet(flags, VERBOSE_BIT), auth |-> auth.val], auth.rest)))

-----------------------------------------------------------------------------
(* PUB (crates/protocol/src/message/publish.rs).                           *)

HAS_REPLY_TO_BIT == 1
HAS_HEADER_BIT == 2

\* Pub::flags with the two bits exchanged.
Pub_flags_exchanged(message) ==
    (IF message.reply_to.some THEN HAS_HEADER_BIT ELSE 0)
    + (IF message.header.some THEN HAS_REPLY_TO_BIT ELSE 0)

Pub_flags(message) ==
    (IF message.reply_to.some THEN HAS_REPLY_TO_BIT ELSE 0)
    + (IF message.header.some THEN HAS_HEADER_BIT ELSE 0)

Pub_encode(message) ==
    BCat(Topic_encode_to(message.topic),
    BCat(IF message.reply_to.some THEN Topic_encode_to(message.reply_to.val)
         ELSE <<>>,
    BCat(IF message.header.some
         THEN put_length_prefixed_u16(Headers_encode_to(message.header.val))
         ELSE <<>>,
    BCat(put_varint(BLen(message.payload)), message.payload))))

\* let reply_to = if has_reply_to { Some(Topic::decode(src)?) } else { None };
Pub_decode_reply_to(flags, src) ==
    IF BitSet(flags, HAS_REPLY_TO_BIT)
    THEN TryTopic(Topic_decode(src), LAMBDA reply_to :
         Ok(Some(reply_to.val), reply_to.rest))
    ELSE Ok(None, src)

\* The header section decoding entries from the cursor behind the block's
\* prefix instead of from the block.
Pub_decode_header_unsliced(flags, src) ==
    IF BitSet(flags, HAS_HEADER_BIT)
    THEN Try(read_u16(src), LAMBDA length :
         Try(Headers_decode_from(length.rest), LAMBDA header :
         Ok(Some(header.val), header.rest)))
    ELSE Ok(None, src)

\* let header = if has_header { ... } else { None };
Pub_decode_header(flags, src) ==
    IF BitSet(flags, HAS_HEADER_BIT)
    THEN Try(read_length_prefixed_u16(src), LAMBDA header_bytes :
         Try(Headers_decode_from(header_bytes.val), LAMBDA header :
         Ok(Some(header.val), header_bytes.rest)))
    ELSE Ok(None, src)

\* The check of src.remaining() against payload_size, and the copy.
Pub_decode_payload(payload_size) ==
    IF BLen(payload_size.rest) < payload_size.val
    THEN Err(BufferTooShort(payload_size.val, BLen(payload_size.rest)))
    ELSE Ok(BTake(payload_size.rest, payload_size.val),
            BDrop(payload_size.rest, payload_size.val))

\* Pub::decode reading the header section in front of reply_to.
Pub_decode_header_first(flags, src) ==
    TryTopic(Topic_decode(src), LAMBDA topic :
    Try(Pub_decode_header(flags, topic.rest), LAMBDA header :
    Try(Pub_decode_reply_to(flags, header.rest), LAMBDA reply_to :
    Try(read_varint(reply_to.rest), LAMBDA payload_size :
    Try(Pub_decode_payload(payload_size), LAMBDA payload :
    Ok([variant |-> "Pub", topic |-> topic.val, reply_to |-> reply_to.val,
        header |-> header.val, payload |-> payload.val], payload.rest))))))

Pub_decode(flags, src) ==
    TryTopic(Topic_decode(src), LAMBDA topic :
    Try(Pub_decode_reply_to(flags, topic.rest), LAMBDA reply_to :
    Try(Pub_decode_header(flags, reply_to.rest), LAMBDA header :
    Try(read_varint(header.rest), LAMBDA payload_size :
    Try(Pub_decode_payload(payload_size), LAMBDA payload :
    Ok([variant |-> "Pub", topic |-> topic.val, reply_to |-> reply_to.val,
        header |-> header.val, payload |-> payload.val], payload.rest))))))

-----------------------------------------------------------------------------
(* SUB and UNSUB (crates/protocol/src/message/sub.rs, unsub.rs).           *)

HAS_QUEUE_GROUP_BIT == 1

Sub_flags(message) == IF message.queue_group.some THEN HAS_QUEUE_GROUP_BIT ELSE 0

Sub_encode(message) ==
    BCat(TopicFilter_encode_to(message.topic),
    BCat(put_length_prefixed_u16(message.subscription_id),
         IF message.queue_group.some
         THEN put_length_prefixed_u8(message.queue_group.val) ELSE <<>>))

\* let queue_group = if has_queue_group { Some(..?) } else { None };
Sub_decode_queue_group(flags, src) ==
    IF BitSet(flags, HAS_QUEUE_GROUP_BIT)
    THEN Try(read_length_prefixed_u8(src), LAMBDA queue_group :
         Ok(Some(queue_group.val), queue_group.rest))
    ELSE Ok(None, src)

Sub_decode(flags, src) ==
    TryTopic(TopicFilter_decode(src), LAMBDA topic :
    Try(read_length_prefixed_u16(topic.rest), LAMBDA subscription_id :
    Try(Sub_decode_queue_group(flags, subscription_id.rest), LAMBDA queue_group :
    Ok([variant |-> "Sub", topic |-> topic.val,
        subscription_id |-> subscription_id.val,
        queue_group |-> queue_group.val], queue_group.rest))))

Unsub_flags(message) == 0

Unsub_encode(message) == put_length_prefixed_u16(message.subscription_id)

Unsub_decode(flags, src) ==
    Try(read_length_prefixed_u16(src), LAMBDA subscription_id :
    Ok([variant |-> "Unsub", subscription_id |-> subscription_id.val],
       subscription_id.rest))

-----------------------------------------------------------------------------
(* MSG.  codec.rs uses message::msg::Msg, whose file is not among the      *)
(* sources; it is modelled from the table of section 4.5 of the            *)
(* specification: topic, subscription_id, then the optional sections and   *)
(* the payload in the shape of PUB.                                        *)

Msg_flags(message) ==
    (IF message.reply_to.some THEN HAS_REPLY_TO_BIT ELSE 0)
    + (IF message.header.some THEN HAS_HEADER_BIT ELSE 0)

Msg_encode(message) ==
    BCat(Topic_encode_to(message.topic),
    BCat(put_length_prefixed_u16(message.subscription_id),
    BCat(IF message.reply_to.some THEN Topic_encode_to(message.reply_to.val)
         ELSE <<>>,
    BCat(IF message.header.some
         THEN put_length_prefixed_u16(Headers_encode_to(message.header.val))
         ELSE <<>>,
    BCat(put_varint(BLen(message.payload)), message.payload)))))

Msg_decode(flags, src) ==
    TryTopic(Topic_decode(src), LAMBDA topic :
    Try(read_length_prefixed_u16(topic.rest), LAMBDA subscription_id :
    Try(Pub_decode_reply_to(flags, subscription_id.rest), LAMBDA reply_to :
    Try(Pub_decode_header(flags, reply_to.rest), LAMBDA header :
    Try(read_varint(header.rest), LAMBDA payload_size :
    Try(Pub_decode_payload(payload_size), LAMBDA payload :
    Ok([variant |-> "Msg", topic |-> topic.val,
        subscription_id |-> subscription_id.val, reply_to |-> reply_to.val,
        header |-> header.val, payload |-> payload.val], payload.rest)))))))

-----------------------------------------------------------------------------
(* Frames and the directional codecs (wire.rs wire_frame, codec.rs).       *)

\* C::command(), command.flags() and command.encode(&mut payload) of the
\* CommandCodec implementation of a message.
CommandOf(message) ==
    CASE message.variant = "Info" -> "INFO"
      [] message.variant = "Connect" -> "CONNECT"
      [] message.variant = "Pub" -> "PUB"
      [] message.variant = "Sub" -> "SUB"
      [] message.variant = "Unsub" -> "UNSUB"
      [] message.variant = "Msg" -> "MSG"

FlagsOf(message) ==
    CASE message.variant = "Info" -> Info_flags(message)
      [] message.variant = "Connect" -> Connect_flags(message)
      [] message.variant = "Pub" -> Pub_flags(message)
      [] message.variant = "Sub" -> Sub_flags(message)
      [] message.variant = "Unsub" -> Unsub_flags(message)
      [] message.variant = "Msg" -> Msg_flags(message)

EncodeOf(message) ==
    CASE message.variant = "Info" -> Info_encode(message)
      [] message.variant = "Connect" -> Connect_encode(message)
      [] message.variant = "Pub" -> Pub_encode(message)
      [] message.variant = "Sub" -> Sub_encode(message)
      [] message.variant = "Unsub" -> Unsub_encode(message)
      [] message.variant = "Msg" -> Msg_encode(message)

\* wire_frame counting the first header byte into the length it writes.
wire_frame_around_counting_header(command, flags, payload) ==
    BCat(put_u8(CommandCode(command) * Pow2(COMMAND_SHIFT) + Masked(flags, FLAGS_MASK)),
    BCat(put_varint(BLen(payload) + 1), payload))

\* The frame wire_frame builds around an encoded payload.
wire_frame_around(command, flags, payload) ==
    BCat(put_u8(CommandCode(command) * Pow2(COMMAND_SHIFT) + Masked(flags, FLAGS_MASK)),
    BCat(put_varint(BLen(payload)), payload))

wire_frame(command) ==
    wire_frame_around(CommandOf(command), FlagsOf(command), EncodeOf(command))

\* Result<Bytes, EncodeError>
Frame(bytes) == [ok |-> TRUE, frame |-> bytes]
\* Result<Message, DecodeError>: the cursor is dropped with the call.
Decoded(r) == IF r.ok THEN [ok |-> TRUE, val |-> r.val] ELSE r

\* ServerCodec::encode with a client's variant among the arms of its match.
ServerCodec_encode_any_pub(message) ==
    IF message.variant \in {"Info", "Msg", "Pub"} THEN Frame(wire_frame(message))
    ELSE Err(WrongDirection)

ServerCodec_encode(message) ==
    IF message.variant \in {"Info", "Msg"} THEN Frame(wire_frame(message))
    ELSE Err(WrongDirection)

\* ServerCodec::decode holding remaining_length against the bytes behind the
\* header.
ServerCodec_decode_exact(src) ==
    Try(FixedHeader_decode(src), LAMBDA header :
        IF header.val.remaining_length # BLen(header.rest)
        THEN Err(BufferTooShort(header.val.remaining_length, BLen(header.rest)))
        ELSE
        CASE header.val.command = "CONNECT" ->
                 Decoded(Connect_decode(header.val.flags, header.rest))
          [] header.val.command = "PUB" ->
                 Decoded(Pub_decode(header.val.flags, header.rest))
          [] header.val.command = "SUB" ->
                 Decoded(Sub_decode(header.val.flags, header.rest))
          [] header.val.command = "UNSUB" ->
                 Decoded(Unsub_decode(header.val.flags, header.rest))
          [] OTHER -> Err(UnsupportedCommand(header.val.command)))

ServerCodec_decode(src) ==
    Try(FixedHeader_decode(src), LAMBDA header :
        CASE header.val.command = "CONNECT" ->
                 Decoded(Connect_decode(header.val.flags, header.rest))
          [] header.val.command = "PUB" ->
                 Decoded(Pub_decode(header.val.flags, header.rest))
          [] header.val.command = "SUB" ->
                 Decoded(Sub_decode(header.val.flags, header.rest))
          [] header.val.command = "UNSUB" ->
                 Decoded(Unsub_decode(header.val.flags, header.rest))
          [] OTHER -> Err(UnsupportedCommand(header.val.command)))

\* ClientCodec::decode with an arm for CONNECT, a command of the other
\* direction.
ClientCodec_decode_connect_too(src) ==
    Try(FixedHeader_decode(src), LAMBDA header :
        CASE header.val.command = "INFO" ->
                 Decoded(Info_decode(header.val.flags, header.rest))
          [] header.val.command = "MSG" ->
                 Decoded(Msg_decode(header.val.flags, header.rest))
          [] header.val.command = "CONNECT" ->
                 Decoded(Connect_decode(header.val.flags, header.rest))
          [] OTHER -> Err(UnsupportedCommand(header.val.command)))

ClientCodec_decode(src) ==
    Try(FixedHeader_decode(src), LAMBDA header :
        CASE header.val.command = "INFO" ->
                 Decoded(Info_decode(header.val.flags, header.rest))
          [] header.val.command = "MSG" ->
                 Decoded(Msg_decode(header.val.flags, header.rest))
          [] OTHER -> Err(UnsupportedCommand(header.val.command)))

ClientCodec_encode(message) ==
    IF message.variant \in {"Connect", "Pub", "Sub", "Unsub"}
    THEN Frame(wire_frame(message))
    ELSE Err(WrongDirection)

-----------------------------------------------------------------------------
(* The inputs of the calls.                                                *)

\* Bounds of the model.
MaxTopicLen == 4
MaxVarintBuf == 5
MaxTailLen == 2
MaxHeaders == 2
MaxSmallValue == 130

\* The largest value four 7-bit groups hold: 0x0FFFFFFF.
VarintMax == Pow2(VARINT_DATA_BITS * VARINT_MAX_BYTES) - 1

SeqsUpTo(S, n) == UNION {[1..k -> S] : k \in 0..n}

\* '/', '+', '#' and 'a'.
TopicAlphabet ==
    {LAYER_SEPARATOR, SINGLE_LAYER_WILDCARD, MULTI_LAYER_WILDCARD, 97}

\* n layers "a" joined by '/'.
RECURSIVE Layered(_)
Layered(n) ==
    IF n = 1 THEN Rep(97, 1)
    ELSE BCat(Layered(n - 1), FromSeq(<<LAYER_SEPARATOR, 97>>))

\* Topic strings at the limits of length and layer count.
LimitTopics ==
    { Rep(97, MAXIMUM_TOPIC_LENGTH),
      Rep(97, MAXIMUM_TOPIC_LENGTH + 1),
      BCat(Rep(97, MAXIMUM_TOPIC_LENGTH - 2), FromSeq(<<LAYER_SEPARATOR, 98>>)),
      BCat(Rep(LAYER_SEPARATOR, 1), Rep(97, MAXIMUM_TOPIC_LENGTH)),
      Layered(MAXIMUM_TOPIC_LAYER - 1),
      Layered(MAXIMUM_TOPIC_LAYER),
      Layered(MAXIMUM_TOPIC_LAYER + 1),
      Layered(MAXIMUM_TOPIC_LAYER + 2),
      BCat(Layered(MAXIMUM_TOPIC_LAYER), FromSeq(<<LAYER_SEPARATOR, LAYER_SEPARATOR, 97>>)),
      BCat(Layered(MAXIMUM_TOPIC_LAYER - 1), FromSeq(<<LAYER_SEPARATOR, MULTI_LAYER_WILDCARD>>)),
      BCat(Layered(MAXIMUM_TOPIC_LAYER - 1), FromSeq(<<LAYER_SEPARATOR, 97, MULTI_LAYER_WILDCARD>>)),
      BCat(Layered(MAXIMUM_TOPIC_LAYER - 1), FromSeq(<<SINGLE_LAYER_WILDCARD>>)),
      BCat(FromSeq(<<97, LAYER_SEPARATOR, LAYER_SEPARATOR>>),
           Layered(MAXIMUM_TOPIC_LAYER + 1)),
      BCat(Layered(MAXIMUM_TOPIC_LAYER - 1),
           FromSeq(<<LAYER_SEPARATOR, LAYER_SEPARATOR, 97>>)),
      BCat(Layered(MAXIMUM_TOPIC_LAYER + 1), FromSeq(<<MULTI_LAYER_WILDCARD>>)),
      Rep(SINGLE_LAYER_WILDCARD, MAXIMUM_TOPIC_LENGTH + 1),
      BCat(Rep(97, MAXIMUM_TOPIC_LENGTH - 1), Rep(LAYER_SEPARATOR, 1)) }

\* "a/b#", "a+b", "ab#" and "sensor/+/#": a wildcard among other bytes of
\* its layer, and the two wildcards together.
MixedTopics ==
    { FromSeq(<<97, LAYER_SEPARATOR, 98, MULTI_LAYER_WILDCARD>>),
      FromSeq(<<97, SINGLE_LAYER_WILDCARD, 98>>),
      FromSeq(<<97, 98, MULTI_LAYER_WILDCARD>>),
      FromSeq(<<115, 101, 110, 115, 111, 114, LAYER_SEPARATOR,
                SINGLE_LAYER_WILDCARD, LAYER_SEPARATOR, MULTI_LAYER_WILDCARD>>) }

TopicStrings ==
    {FromSeq(q) : q \in SeqsUpTo(TopicAlphabet, MaxTopicLen)}
    \cup LimitTopics \cup MixedTopics

\* Bytes that follow a value in its buffer.
Tails == {FromSeq(q) : q \in SeqsUpTo({0, 1, 128}, MaxTailLen)}

\* Buffers handed to the varint readers.
VarintBufs == {FromSeq(q) : q \in SeqsUpTo({0, 127, 128, 255}, MaxVarintBuf)}

\* Values handed to the varint writers: the small ones, the group limits,
\* and two values of more than 28 bits.
VarintValues ==
    (0..MaxSmallValue)
    \cup UNION {{Pow2(7 * k) - 1, Pow2(7 * k), Pow2(7 * k) + 1} : k \in 1..3}
    \cup {VarintMax - 1, VarintMax, VarintMax + 1, 2147483647}

VarintImpls == {"common", "protocol", "header"}

VarintRead(impl, src) ==
    CASE impl = "common" -> common_read_varint(src)
      [] impl = "protocol" -> read_varint(src)
      [] impl = "header" -> decode_variable_length(src)

VarintWrite(impl, value) ==
    CASE impl = "common" -> common_put_varint(value)
      [] impl = "protocol" -> put_varint(value)
      [] impl = "header" -> encode_variable_length(value)

\* Flags handed to FixedHeader::new: the 4-bit values and some wider ones.
HeaderFlags == (0..15) \cup {16, 31, 128, 240, 255}

\* Values of remaining_length: the group limits and one value of 29 bits.
RemainingLengths ==
    {0, 1, 127, 128, 16383, 16384, 2097151, 2097152, VarintMax, VarintMax + 1}

\* Frames handed to the decoders: any first byte, then a few bytes.
RawFrames ==
    {<<>>} \cup {BCat(Rep(b, 1), t) : b \in 0..255, t \in Tails}

\* The Topic and TopicFilter values of the messages: a Topic exists only as
\* the result of a successful decode.
TopicOf(q) == Topic_decode(common_put_length_prefixed_u16(FromSeq(q))).val
FilterOf(q) == TopicFilter_decode(common_put_length_prefixed_u16(FromSeq(q))).val

MessageTopics == {TopicOf(<<97>>), TopicOf(<<97, 47, 98>>)}
MessageFilters ==
    {FilterOf(<<97>>), FilterOf(<<43, 47, 97>>), FilterOf(<<97, 47, 35>>),
     FilterOf(<<43, 47, 35>>)}

\* Header entries: small ones, and the longest key and the longest value
\* their prefixes announce.
HeaderEntries ==
    {<<Rep(107, 1), Rep(118, 1)>>, <<Rep(107, 1), <<>> >>, << <<>>, Rep(119, 2)>>,
     <<Rep(107, 255), Rep(118, 1)>>, <<Rep(107, 1), Rep(119, 65535)>>}
HeaderValues == {None} \cup {Some(h) : h \in SeqsUpTo(HeaderEntries, MaxHeaders)}

\* Payloads: empty, one byte, a 2-group length, and the two lengths around
\* the largest frame a 4-group remaining_length can announce.
Payloads ==
    {<<>>, Rep(112, 1), Rep(112, 128), Rep(112, VarintMax - 7), Rep(112, VarintMax)}

\* Headers blocks as they arrive: whole entries, and entries cut short.
MaxBlockLen == 5
Blocks == {FromSeq(q) : q \in SeqsUpTo({0, 1, 2, 107}, MaxBlockLen)}

\* What follows the block in its frame: nothing, an empty payload, and
\* payloads whose bytes read as a header entry or as the start of one.
AfterBlocks ==
    {<<>>, FromSeq(<<0>>), FromSeq(<<1, 107>>), FromSeq(<<1, 0>>),
     FromSeq(<<4, 0, 0, 1, 118>>), FromSeq(<<3, 1, 107, 0>>)}

\* The frame of a PUB or MSG with topic "a", the header flag, the block
\* behind its 2-byte length, and `after` behind the block.
HeaderFrame(variant, block, after) ==
    wire_frame_around(
        IF variant = "Pub" THEN "PUB" ELSE "MSG",
        HAS_HEADER_BIT,
        BCat(put_length_prefixed_u16(Rep(97, 1)),
        BCat(IF variant = "Msg" THEN put_length_prefixed_u16(Rep(105, 1)) ELSE <<>>,
        BCat(put_length_prefixed_u16(block), after))))

\* Payloads of CONNECT frames as they arrive: nothing, the version alone,
\* and the version, an auth type and a few bytes.
MaxAuthLen == 4
AuthTypes == {0, AUTH_TYPE_PASSWORD, AUTH_TYPE_JWT, 3, 255}
ConnectPayloads ==
    {<<>>, Rep(1, 1)}
    \cup {BCat(FromSeq(<<1, t>>), FromSeq(q)) :
              t \in AuthTypes, q \in SeqsUpTo({0, 1, 2, 128}, MaxAuthLen)}

Infos ==
    {[variant |-> "Info", version |-> 1, max_payload |-> mp, server_id |-> id,
      server_name |-> name, auth_required |-> ar, headers |-> h] :
        mp \in {0, 1048576, 2147483647}, id \in {<<>>, Rep(115, 1)},
        name \in {<<>>, Rep(110, 255), Rep(110, 256)},
        ar \in BOOLEAN, h \in BOOLEAN}

Auths ==
    {None,
     Some(Password(<<>>, <<>>)), Some(Password(Rep(117, 1), Rep(112, 1))),
     Some(Password(Rep(117, 255), Rep(112, 255))),
     Some(Jwt(<<>>)), Some(Jwt(Rep(116, 1))), Some(Jwt(Rep(116, 300))),
     Some(Jwt(Rep(116, 65535)))}

Connects ==
    {[variant |-> "Connect", version |-> 1, verbose |-> v, auth |-> a] :
        v \in BOOLEAN, a \in Auths}

Pubs ==
    {[variant |-> "Pub", topic |-> t, reply_to |-> r, header |-> h, payload |-> p] :
        t \in MessageTopics, r \in {None, Some(TopicOf(<<114>>))},
        h \in HeaderValues, p \in Payloads}

Subs ==
    {[variant |-> "Sub", topic |-> t, subscription_id |-> id, queue_group |-> q] :
        t \in MessageFilters, id \in {<<>>, Rep(105, 1)},
        q \in {None, Some(<<>>), Some(Rep(113, 1))}}

Unsubs ==
    {[variant |-> "Unsub", subscription_id |-> id] :
        id \in {<<>>, Rep(105, 1), Rep(105, 65535)}}

Msgs ==
    {[variant |-> "Msg", topic |-> t, subscription_id |-> id, reply_to |-> r,
      header |-> h, payload |-> p] :
        t \in MessageTopics, id \in {Rep(105, 1)},
        r \in {None, Some(TopicOf(<<114>>))},
        h \in HeaderValues, p \in Payloads}

Messages == Infos \cup Connects \cup Pubs \cup Subs \cup Unsubs \cup Msgs

\* Messages with each optional section absent and present, decoded under
\* every value of the 4 flag bits.
FlagMessages ==
    {[variant |-> "Info", version |-> 1, max_payload |-> 0, server_id |-> <<>>,
      server_name |-> Rep(110, 1), auth_required |-> FALSE, headers |-> TRUE]}
    \cup {[variant |-> "Connect", version |-> 1, verbose |-> v, auth |-> a] :
              v \in BOOLEAN,
              a \in {None, Some(Password(Rep(117, 1), Rep(112, 1))),
                     Some(Jwt(Rep(116, 1)))}}
    \cup {[variant |-> "Pub", topic |-> TopicOf(<<97>>), reply_to |-> r,
           header |-> h, payload |-> p] :
              r \in {None, Some(TopicOf(<<114>>))},
              h \in {None, Some(<<>>), Some(<< <<Rep(107, 1), Rep(118, 1)>> >>)},
              p \in {<<>>, Rep(112, 1)}}
    \cup {[variant |-> "Sub", topic |-> FilterOf(<<97>>), subscription_id |-> id,
           queue_group |-> q] :
              id \in {<<>>, Rep(105, 1)}, q \in {None, Some(<<>>), Some(Rep(113, 1))}}
    \cup {[variant |-> "Unsub", subscription_id |-> Rep(105, 1)]}
    \cup {[variant |-> "Msg", topic |-> TopicOf(<<97>>),
           subscription_id |-> Rep(105, 1), reply_to |-> r, header |-> h,
           payload |-> p] :
              r \in {None, Some(TopicOf(<<114>>))},
              h \in {None, Some(<<>>), Some(<< <<Rep(107, 1), Rep(118, 1)>> >>)},
              p \in {<<>>, Rep(112, 1)}}

\* Declared payload lengths and the numbers of bytes behind the varint.
DeclaredLengths == {0, 1, 2, 3, 128, 300, VarintMax}
MaxAvailable == 3

\* A PUB payload as a peer may send it: topic "a", reply_to "r" under bit 0,
\* a block with the entry ("k", "v") under bit 1, the varint of the
\* declared length and `available` bytes behind it.
PubPayloadBytes(flags, declared, available) ==
    BCat(FromSeq(<<0, 1, 97>>),
    BCat(IF BitSet(flags, HAS_REPLY_TO_BIT) THEN FromSeq(<<0, 1, 114>>) ELSE <<>>,
    BCat(IF BitSet(flags, HAS_HEADER_BIT)
         THEN FromSeq(<<0, 5, 1, 107, 0, 1, 118>>) ELSE <<>>,
    BCat(put_varint(declared), Rep(112, available)))))

\* Varints put in the place of remaining_length: 0, 1, the ends of the
\* first group, a second group of zero, and the largest value.
LengthVarints ==
    {FromSeq(q) : q \in {<<0>>, <<1>>, <<127>>, <<128, 1>>, <<128, 0>>,
                         <<255, 255, 255, 127>>}}

\* The frame of a message with `varint` in the place of remaining_length
\* and `tail` behind the payload.
Reframed(message, varint, tail) ==
    BCat(put_u8(CommandCode(CommandOf(message)) * Pow2(COMMAND_SHIFT)
                + Masked(FlagsOf(message), FLAGS_MASK)),
    BCat(varint, BCat(EncodeOf(message), tail)))

\* The two WireDecode / WireEncode traits and the two widths of a prefix.
WireImpls == {"common", "protocol"}
PrefixWidths == {1, 2}

PrefixedRead(impl, width, src) ==
    CASE impl = "common" /\ width = 1 -> common_read_length_prefixed_u8(src)
      [] impl = "common" /\ width = 2 -> common_read_length_prefixed_u16(src)
      [] impl = "protocol" /\ width = 1 -> read_length_prefixed_u8(src)
      [] impl = "protocol" /\ width = 2 -> read_length_prefixed_u16(src)

PrefixedWrite(impl, width, bytes) ==
    CASE impl = "common" /\ width = 1 -> common_put_length_prefixed_u8(bytes)
      [] impl = "common" /\ width = 2 -> common_put_length_prefixed_u16(bytes)
      [] impl = "protocol" /\ width = 1 -> put_length_prefixed_u8(bytes)
      [] impl = "protocol" /\ width = 2 -> put_length_prefixed_u16(bytes)

\* Buffers handed to the length-prefixed reads: short ones of small bytes,
\* and prefixes of 255, 256 and 255 again (as 2 bytes) in front of about
\* that many bytes.
MaxPrefixedLen == 4
PrefixedBufs ==
    {FromSeq(q) : q \in SeqsUpTo({0, 1, 2}, MaxPrefixedLen)}
    \cup {BCat(FromSeq(p), Rep(97, k)) :
              p \in {<<255>>, <<1, 0>>, <<0, 255>>}, k \in {254, 255, 256, 257}}

\* Strings handed to the length-prefixed writes: around both field ranges.
PrefixedStrings ==
    {Rep(97, k) : k \in {0, 1, 2, 255, 256, 257, 300, 511, 512, 65535, 65536, 65537}}

Roles == {"server", "client"}
Peer(role) == IF role = "server" THEN "client" ELSE "server"
\* The role that may send a message.
SenderOf(message) ==
    IF message.variant \in {"Info", "Msg"} THEN "server" ELSE "client"

CodecEncode(role, message) ==
    IF role = "server" THEN ServerCodec_encode(message)
    ELSE ClientCodec_encode(message)

CodecDecode(role, src) ==
    IF role = "server" THEN ServerCodec_decode(src) ELSE ClientCodec_decode(src)

-----------------------------------------------------------------------------
(* The calls.  No call leaves anything behind for the next one, so a       *)
(* behaviour is one call: each action starts from the idle state.          *)

Idle == call.op = "none"

Init ==
    /\ call = [op |-> "none"]
    /\ ret = [ok |-> TRUE]

\* Topic::decode on a length-prefixed string followed by other bytes.
TopicDecode ==
    /\ Idle
    /\ \E raw \in TopicStrings, tail \in Tails :
        /\ call' = [op |-> "Topic_decode", raw |-> raw, tail |-> tail]
        /\ ret' = Topic_decode(BCat(common_put_length_prefixed_u16(raw), tail))

\* TopicFilter::decode on a length-prefixed string followed by other bytes.
TopicFilterDecode ==
    /\ Idle
    /\ \E raw \in TopicStrings, tail \in Tails :
        /\ call' = [op |-> "TopicFilter_decode", raw |-> raw, tail |-> tail]
        /\ ret' = TopicFilter_decode(BCat(common_put_length_prefixed_u16(raw), tail))

\* Topic::decode or TopicFilter::decode by kind.
TopicKinds == {"Topic", "TopicFilter"}
TopicKindDecode(kind, src) ==
    IF kind = "Topic" THEN Topic_decode(src) ELSE TopicFilter_decode(src)

\* layer(0) .. layer(layer_count - 1) of a decoded topic, or its error.
LayersOf(decoded) ==
    IF decoded.ok
    THEN [ok |-> TRUE,
          layer_count |-> decoded.val.wire.layer_count,
          layers |-> [k \in 1..decoded.val.wire.layer_count |->
                         TopicWire_layer(decoded.val.wire, k - 1)]]
    ELSE decoded

\* Topic::decode or TopicFilter::decode, then layer_count() and layer(i) for
\* every i below it.
TopicLayers ==
    /\ Idle
    /\ \E kind \in TopicKinds, raw \in TopicStrings :
        /\ call' = [op |-> "layers", kind |-> kind, raw |-> raw]
        /\ ret' = LayersOf(TopicKindDecode(kind, common_put_length_prefixed_u16(raw)))

\* Topic::encode_to or TopicFilter::encode_to by kind.
TopicKindEncode(kind, value) ==
    IF kind = "Topic" THEN Topic_encode_to(value) ELSE TopicFilter_encode_to(value)

\* encode_to of a decoded topic and decode of what it wrote, or the error
\* of the first decode.
Reencoded(kind, decoded) ==
    IF decoded.ok
    THEN [ok |-> TRUE,
          encoded |-> TopicKindEncode(kind, decoded.val),
          redecoded |-> TopicKindDecode(kind, TopicKindEncode(kind, decoded.val))]
    ELSE decoded

\* decode of a length-prefixed string followed by other bytes, encode_to of
\* the result into an empty buffer, and decode of that buffer.
TopicReencode ==
    /\ Idle
    /\ \E kind \in TopicKinds, raw \in TopicStrings, tail \in Tails :
        /\ call' = [op |-> "reencode", kind |-> kind, raw |-> raw,
                    src |-> BCat(common_put_length_prefixed_u16(raw), tail),
                    decoded |-> TopicKindDecode(
                                    kind,
                                    BCat(common_put_length_prefixed_u16(raw), tail))]
        /\ ret' = Reencoded(kind, call'.decoded)

\* read_varint / decode_variable_length on a buffer.
VarintDecode ==
    /\ Idle
    /\ \E impl \in VarintImpls, src \in VarintBufs :
        /\ call' = [op |-> "read_varint", impl |-> impl, src |-> src]
        /\ ret' = VarintRead(impl, src)

\* put_varint / encode_variable_length of a value, then the reader on what
\* was written followed by other bytes.
VarintRoundTrip ==
    /\ Idle
    /\ \E impl \in VarintImpls, value \in VarintValues, tail \in Tails :
        /\ call' = [op |-> "varint_roundtrip", impl |-> impl, value |-> value,
                    written |-> VarintWrite(impl, value), tail |-> tail]
        /\ ret' = VarintRead(impl, BCat(call'.written, tail))

\* FixedHeader::decode on a buffer.
HeaderDecode ==
    /\ Idle
    /\ \E src \in RawFrames :
        /\ call' = [op |-> "FixedHeader_decode", src |-> src]
        /\ ret' = FixedHeader_decode(src)

\* FixedHeader::encode of a header, then FixedHeader::decode on what was
\* written followed by other bytes.
HeaderRoundTrip ==
    /\ Idle
    /\ \E command \in {Commands[k] : k \in 1..Len(Commands)},
          flags \in HeaderFlags, remaining_length \in RemainingLengths,
          tail \in Tails :
        /\ call' = [op |-> "FixedHeader_roundtrip", command |-> command,
                    flags |-> flags, remaining_length |-> remaining_length,
                    written |-> FixedHeader_encode(
                                    [command |-> command, flags |-> flags,
                                     remaining_length |-> remaining_length]),
                    tail |-> tail]
        /\ ret' = FixedHeader_decode(BCat(call'.written, tail))

\* ServerCodec::encode / ClientCodec::encode of a message.
Encode ==
    /\ Idle
    /\ \E role \in Roles, message \in Messages :
        /\ call' = [op |-> "encode", role |-> role, message |-> message]
        /\ ret' = CodecEncode(role, message)

\* ServerCodec::decode / ClientCodec::decode of a buffer.
Decode ==
    /\ Idle
    /\ \E role \in Roles, src \in RawFrames :
        /\ call' = [op |-> "decode", role |-> role, src |-> src]
        /\ ret' = CodecDecode(role, src)

\* ServerCodec::decode of a PUB frame, or ClientCodec::decode of a MSG
\* frame, that carries a headers block.
HeaderBlockDecode ==
    /\ Idle
    /\ \E variant \in {"Pub", "Msg"}, block \in Blocks, after \in AfterBlocks :
        /\ call' = [op |-> "header_block", variant |-> variant, block |-> block,
                    after |-> after]
        /\ ret' = CodecDecode(IF variant = "Pub" THEN "server" ELSE "client",
                              HeaderFrame(variant, block, after))

\* Connect::decode on the flags of a fixed header and the bytes behind it.
ConnectDecode ==
    /\ Idle
    /\ \E flags \in 0..3, src \in ConnectPayloads :
        /\ call' = [op |-> "Connect_decode", flags |-> flags, src |-> src]
        /\ ret' = Connect_decode(flags, src)

\* The payload a message encodes to behind a fixed header with any flags,
\* decoded by the peer of the role that may send the message.
FlagDecode ==
    /\ Idle
    /\ \E message \in FlagMessages, flags \in 0..15 :
        /\ call' = [op |-> "flag_decode", message |-> message, flags |-> flags]
        /\ ret' = CodecDecode(Peer(SenderOf(message)),
                              wire_frame_around(CommandOf(message), flags,
                                                EncodeOf(message)))

\* Pub::decode on a payload whose declared payload length and whose bytes
\* behind it are chosen apart.
PubPayloadDecode ==
    /\ Idle
    /\ \E flags \in 0..3, declared \in DeclaredLengths, available \in 0..MaxAvailable :
        /\ call' = [op |-> "Pub_decode", flags |-> flags, declared |-> declared,
                    available |-> available]
        /\ ret' = Pub_decode(flags, PubPayloadBytes(flags, declared, available))

\* decode by the peer of a message's frame, and of the same frame with
\* another varint as remaining_length and other bytes behind the payload.
ReframedDecode ==
    /\ Idle
    /\ \E message \in FlagMessages, varint \in LengthVarints, tail \in Tails :
        /\ call' = [op |-> "reframed", message |-> message, varint |-> varint,
                    tail |-> tail,
                    accepted |-> CodecDecode(Peer(SenderOf(message)),
                                             wire_frame(message))]
        /\ ret' = CodecDecode(Peer(SenderOf(message)),
                              Reframed(message, varint, tail))

\* read_length_prefixed_u8 / read_length_prefixed_u16 on a buffer.
PrefixedDecode ==
    /\ Idle
    /\ \E impl \in WireImpls, width \in PrefixWidths, src \in PrefixedBufs :
        /\ call' = [op |-> "read_length_prefixed", impl |-> impl, width |-> width,
                    src |-> src]
        /\ ret' = PrefixedRead(impl, width, src)

\* put_length_prefixed_u8 / put_length_prefixed_u16 of a string into an
\* empty buffer.
PrefixedEncode ==
    /\ Idle
    /\ \E impl \in WireImpls, width \in PrefixWidths, bytes \in PrefixedStrings :
        /\ call' = [op |-> "put_length_prefixed", impl |-> impl, width |-> width,
                    bytes |-> bytes]
        /\ ret' = [ok |-> TRUE, written |-> PrefixedWrite(impl, width, bytes)]

\* Buffers handed to both topic decoders: every topic string behind its
\* length, and buffers that end inside the length or inside the string.
TopicBufs ==
    {common_put_length_prefixed_u16(raw) : raw \in TopicStrings}
    \cup {FromSeq(q) : q \in {<<>>, <<0>>, <<0, 1>>, <<0, 2, 97>>}}

\* Topic::decode and TopicFilter::decode on the same buffer, and the layers
\* of what each returned.
TopicAndFilterDecode ==
    /\ Idle
    /\ \E src \in TopicBufs :
        /\ call' = [op |-> "topic_and_filter", src |-> src]
        /\ ret' = [ok |-> TRUE,
                   topic |-> Topic_decode(src),
                   filter |-> TopicFilter_decode(src),
                   topic_layers |-> LayersOf(Topic_decode(src)),
                   filter_layers |-> LayersOf(TopicFilter_decode(src))]

\* The three varint readers on the same buffer.
VarintReadAll ==
    /\ Idle
    /\ \E src \in VarintBufs :
        /\ call' = [op |-> "read_varint_all", src |-> src]
        /\ ret' = [ok |-> TRUE,
                   read |-> [impl \in VarintImpls |-> VarintRead(impl, src)]]

\* The three varint writers on the same value.
VarintWriteAll ==
    /\ Idle
    /\ \E value \in VarintValues :
        /\ call' = [op |-> "put_varint_all", value |-> value]
        /\ ret' = [ok |-> TRUE,
                   written |-> [impl \in VarintImpls |-> VarintWrite(impl, value)]]

\* decode by `role` of what an encode returned, or the encode's error.
DecodeEncoded(role, encoded) ==
    IF encoded.ok THEN CodecDecode(role, encoded.frame) ELSE encoded

\* A message encoded by the role that may send it and decoded by the peer.
RoundTrip ==
    /\ Idle
    /\ \E message \in Messages :
        /\ call' = [op |-> "roundtrip", role |-> SenderOf(message),
                    message |-> message,
                    encoded |-> CodecEncode(SenderOf(message), message)]
        /\ ret' = DecodeEncoded(Peer(call'.role), call'.encoded)

\* A message encoded by the role that may send it and decoded by that role.
Loopback ==
    /\ Idle
    /\ \E message \in Messages :
        /\ call' = [op |-> "loopback", role |-> SenderOf(message),
                    message |-> message,
                    encoded |-> CodecEncode(SenderOf(message), message)]
        /\ ret' = DecodeEncoded(call'.role, call'.encoded)

Next ==
    \/ TopicDecode
    \/ TopicFilterDecode
    \/ TopicLayers
    \/ TopicReencode
    \/ VarintDecode
    \/ VarintRoundTrip
    \/ HeaderDecode
    \/ HeaderRoundTrip
    \/ Encode
    \/ Decode
    \/ HeaderBlockDecode
    \/ ConnectDecode
    \/ FlagDecode
    \/ PubPayloadDecode
    \/ ReframedDecode
    \/ PrefixedDecode
    \/ PrefixedEncode
    \/ TopicAndFilterDecode
    \/ VarintReadAll
    \/ VarintWriteAll
    \/ RoundTrip
    \/ Loopback

Spec == Init /\ [][Next]_vars

-----------------------------------------------------------------------------
(* Properties of the directional codecs.                                   *)

\* The entries of a headers block fit their prefixes (1 byte for a key, 2
\* for a value) and the block fits its own 2-byte prefix.
HeaderFits(header) ==
    \/ ~header.some
    \/ /\ \A k \in 1..Len(header.val) :
            /\ BLen(header.val[k][1]) <= 255
            /\ BLen(header.val[k][2]) <= 65535
       /\ BLen(Headers_encode_to(header.val)) <= 65535

\* The credentials of a CONNECT fit their prefixes.
AuthFits(auth) ==
    \/ ~auth.some
    \/ /\ auth.val.tag = "Password"
       /\ BLen(auth.val.username) <= 255
       /\ BLen(auth.val.password) <= 255
    \/ /\ auth.val.tag = "Jwt"
       /\ BLen(auth.val.token) <= 65535

\* Every length-prefixed field of the message fits the width of its prefix,
\* and its payload is at most 0x0FFFFFFF bytes long.
FieldsFit(message) ==
    CASE message.variant = "Info" ->
             BLen(message.server_id) <= 255 /\ BLen(message.server_name) <= 255
      [] message.variant = "Connect" -> AuthFits(message.auth)
      [] message.variant = "Pub" ->
             HeaderFits(message.header) /\ BLen(message.payload) <= 268435455
      [] message.variant = "Sub" ->
             /\ BLen(message.subscription_id) <= 65535
             /\ message.queue_group.some => BLen(message.queue_group.val) <= 255
      [] message.variant = "Unsub" -> BLen(message.subscription_id) <= 65535
      [] message.variant = "Msg" ->
             /\ BLen(message.subscription_id) <= 65535
             /\ HeaderFits(message.header)
             /\ BLen(message.payload) <= 268435455

\* C1: a message whose length-prefixed fields fit their prefixes and whose
\* payload is at most 0x0FFFFFFF bytes, encoded by the role that may send it
\* and decoded by the peer, comes back as the same variant with every field
\* equal (an empty payload, a present but empty headers block and absent
\* optional fields included).
C1_RoundTrip ==
    (call.op = "roundtrip" /\ FieldsFit(call.message))
        => (ret.ok /\ ret.val = call.message)

\* The variants a role's encode has an arm for.
LegalVariants(role) ==
    IF role = "server" THEN {"Info", "Msg"} ELSE {"Connect", "Pub", "Sub", "Unsub"}

\* C2: ServerCodec.encode returns a frame exactly for Info and Msg, and
\* ClientCodec.encode exactly for Connect, Pub, Sub and Unsub; for every
\* other variant the result is Err(WrongDirection) and carries no bytes.
C2_DirectionalEncoding ==
    call.op = "encode" =>
        IF call.message.variant \in LegalVariants(call.role)
        THEN ret.ok /\ BLen(ret.frame) >= 2
        ELSE ret = [ok |-> FALSE, err |-> [kind |-> "WrongDirection"]]

\* C2 witness: ServerCodec.encode has refused a Pub, and ClientCodec.encode
\* has not been asked.
C2_Witness ==
    /\ call.op = "encode"
    /\ call.role = "server"
    /\ call.message.variant = "Pub"
    /\ ~ret.ok
    /\ ret.err.kind = "WrongDirection"

\* The commands a role's decode has an arm for.
HandledCommands(role) ==
    IF role = "server" THEN {"CONNECT", "PUB", "SUB", "UNSUB"} ELSE {"INFO", "MSG"}

\* The command the upper nibble of the first byte of a frame names.
NibbleCommand(src) == Commands[BAt(src, 0) \div 16]

\* C3: when the fixed header of a frame decodes, a role's decode answers
\* Err(UnsupportedCommand(c)) for every command c it has no arm for, whatever
\* bytes follow the header; and no frame a role's encode produced is accepted
\* by the decode of that same role.
C3_DirectionalDecoding ==
    /\ (/\ call.op = "decode"
        /\ FixedHeader_decode(call.src).ok
        /\ NibbleCommand(call.src) \notin HandledCommands(call.role))
           => ret = [ok |-> FALSE,
                     err |-> [kind |-> "UnsupportedCommand",
                              command |-> NibbleCommand(call.src)]]
    /\ (call.op = "loopback" /\ call.encoded.ok) => ~ret.ok

\* C3 witness: ServerCodec.decode has refused a PING frame that carries a
\* payload byte behind its header.
C3_Witness ==
    /\ call.op = "decode"
    /\ call.role = "server"
    /\ BLen(call.src) = 3
    /\ BAt(call.src, 0) \div 16 = 7
    /\ ~ret.ok
    /\ ret.err = [kind |-> "UnsupportedCommand", command |-> "PING"]

-----------------------------------------------------------------------------
(* Properties of the topic model, stated on the runs of the topic string:  *)
(* a run <<b, n>> is n adjacent bytes b.                                   *)

\* The number of bytes b in the string s.
RECURSIVE ByteCount(_, _)
ByteCount(s, b) ==
    IF s = <<>> THEN 0
    ELSE (IF Head(s)[1] = b THEN Head(s)[2] ELSE 0) + ByteCount(Tail(s), b)

\* Valid length, slashes and layer count: 1 to 256 bytes, no '/' first or
\* last, no two adjacent '/', at most 7 separators.
StructurallyValid(s) ==
    /\ BLen(s) >= 1
    /\ BLen(s) <= 256
    /\ s[1][1] # 47
    /\ s[Len(s)][1] # 47
    /\ \A k \in 1..Len(s) : s[k][1] = 47 => s[k][2] = 1
    /\ ByteCount(s, 47) <= 7

\* C4: Topic::decode succeeds on a length-prefixed string if and only if the
\* string is non-empty, at most 256 bytes long, neither starts nor ends with
\* '/', has no two adjacent '/', has at most 8 layers and holds neither '+'
\* nor '#'; the Topic it returns holds that string and has from 1 to 8
\* layers, one more than it has separators.
C4_TopicDecodeIff ==
    call.op = "Topic_decode" =>
        /\ ret.ok <=> (/\ StructurallyValid(call.raw)
                       /\ ByteCount(call.raw, 43) = 0
                       /\ ByteCount(call.raw, 35) = 0)
        /\ ret.ok => /\ ret.val.wire.raw = call.raw
                     /\ ret.val.wire.layer_count \in 1..8
                     /\ ret.val.wire.layer_count = ByteCount(call.raw, 47) + 1

\* C4 witness: Topic::decode has accepted a topic of 8 layers.
C4_Witness ==
    /\ call.op = "Topic_decode"
    /\ ByteCount(call.raw, 47) = 7
    /\ ret.ok
    /\ ret.val.wire.layer_count = 8

\* Some layer other than the last holds the byte b: a b with a '/' behind it.
InEarlierLayer(s, b) ==
    \E i, j \in 1..Len(s) : i < j /\ s[i][1] = b /\ s[j][1] = 47

\* The last layer holds the byte b: a b with no '/' behind it.
InLastLayer(s, b) ==
    \E i \in 1..Len(s) : s[i][1] = b /\ \A j \in (i + 1)..Len(s) : s[j][1] # 47

\* C5: on a structurally valid string TopicFilter::decode fails with
\* MultiLayerWildcardNotTerminal if and only if a layer other than the last
\* holds '#'; otherwise it succeeds and the pair (some layer holds '+', the
\* last layer holds '#') gives the kind: None, SingleLayer, MultiLayer, Both.
\* A wildcard among other bytes of its layer counts: "a/b#" is MultiLayer
\* and "a+b" is SingleLayer.
C5_FilterClassification ==
    (call.op = "TopicFilter_decode" /\ StructurallyValid(call.raw)) =>
        /\ IF InEarlierLayer(call.raw, 35)
           THEN ret = [ok |-> FALSE, err |-> [kind |-> "MultiLayerWildcardNotTerminal"]]
           ELSE /\ ret.ok
                /\ ret.val.wildcard =
                       CASE ByteCount(call.raw, 43) = 0 /\ ~InLastLayer(call.raw, 35)
                                -> "None"
                         [] ByteCount(call.raw, 43) > 0 /\ ~InLastLayer(call.raw, 35)
                                -> "SingleLayer"
                         [] ByteCount(call.raw, 43) = 0 /\ InLastLayer(call.raw, 35)
                                -> "MultiLayer"
                         [] OTHER -> "Both"
        /\ call.raw = <<<<97, 1>>, <<47, 1>>, <<98, 1>>, <<35, 1>>>>
               => ret.ok /\ ret.val.wildcard = "MultiLayer"
        /\ call.raw = <<<<97, 1>>, <<43, 1>>, <<98, 1>>>>
               => ret.ok /\ ret.val.wildcard = "SingleLayer"

\* C5 witness: TopicFilter::decode has classified "a/b#" as MultiLayer.
C5_Witness ==
    /\ call.op = "TopicFilter_decode"
    /\ call.raw = <<<<97, 1>>, <<47, 1>>, <<98, 1>>, <<35, 1>>>>
    /\ ret.ok
    /\ ret.val.wildcard = "MultiLayer"

\* The last layer is the single byte b.
LastLayerIs(s, b) ==
    /\ s[Len(s)] = <<b, 1>>
    /\ Len(s) > 1 => s[Len(s) - 1][1] = 47

\* C6 as stated: in every TopicFilter that decodes, if the string holds '#'
\* then the last layer is exactly the single byte '#' and no other layer
\* holds '#'.
C6_HashIsWholeLastLayer ==
    (call.op = "TopicFilter_decode" /\ ret.ok /\ ByteCount(call.raw, 35) > 0) =>
        /\ LastLayerIs(ret.val.wire.raw, 35)
        /\ ~InEarlierLayer(ret.val.wire.raw, 35)

\* C6 as amended: in every TopicFilter that decodes, if the string holds '#'
\* then every '#' is in the last layer, which may hold other bytes as well.
C6_HashOnlyInLastLayer ==
    (call.op = "TopicFilter_decode" /\ ret.ok /\ ByteCount(call.raw, 35) > 0) =>
        /\ InLastLayer(ret.val.wire.raw, 35)
        /\ ~InEarlierLayer(ret.val.wire.raw, 35)

\* C6 witness: TopicFilter::decode has accepted "ab#", whose last layer
\* holds '#' behind other bytes.
C6_Witness ==
    /\ call.op = "TopicFilter_decode"
    /\ call.raw = <<<<97, 1>>, <<98, 1>>, <<35, 1>>>>
    /\ ret.ok
    /\ ret.val.wire.raw = call.raw

-----------------------------------------------------------------------------
(* Properties of the fixed header, the frame and the varint.               *)

\* C7: FixedHeader::decode on fewer than 2 bytes fails with
\* BufferTooShort{expected: 2, actual: remaining} whatever the bytes are; on
\* 2 bytes or more an upper nibble of byte 0 outside 1..10 fails with
\* UnknownCommand of that nibble, and a nibble in 1..10 never does: the
\* header that decodes has the command of that code and the lower nibble,
\* unchanged, as its flags.
C7_HeaderDecodeOutcomes ==
    call.op = "FixedHeader_decode" =>
        /\ BLen(call.src) < 2 =>
               ret = [ok |-> FALSE,
                      err |-> [kind |-> "BufferTooShort", expected |-> 2,
                               actual |-> BLen(call.src)]]
        /\ (BLen(call.src) >= 2 /\ BAt(call.src, 0) \div 16 \notin 1..10) =>
               ret = [ok |-> FALSE,
                      err |-> [kind |-> "UnknownCommand",
                               byte |-> BAt(call.src, 0) \div 16]]
        /\ (BLen(call.src) >= 2 /\ BAt(call.src, 0) \div 16 \in 1..10) =>
               IF ret.ok
               THEN /\ ret.val.command = Commands[BAt(call.src, 0) \div 16]
                    /\ CommandCode(ret.val.command) = BAt(call.src, 0) \div 16
                    /\ ret.val.flags = BAt(call.src, 0) % 16
               ELSE ret.err.kind \in {"BufferTooShort", "VariableLengthOverflow"}

\* C7 witness: FixedHeader::decode has answered BufferTooShort{2, 1} to a
\* single byte whose upper nibble names no command.
C7_Witness ==
    /\ call.op = "FixedHeader_decode"
    /\ BLen(call.src) = 1
    /\ BAt(call.src, 0) \div 16 = 15
    /\ ~ret.ok
    /\ ret.err = [kind |-> "BufferTooShort", expected |-> 2, actual |-> 1]

\* The code of the command of a variant, as the table of commands gives it.
WireCode(variant) ==
    CASE variant = "Info" -> 1
      [] variant = "Connect" -> 2
      [] variant = "Pub" -> 3
      [] variant = "Sub" -> 4
      [] variant = "Unsub" -> 5
      [] variant = "Msg" -> 6

\* C8: a frame that ServerCodec.encode or ClientCodec.encode returns for a
\* command payload shorter than 2^28 bytes is one fixed header followed by
\* the command payload; its byte 0 is (command code << 4) | (flags & 0x0F),
\* and the remaining_length its header decodes to is the number of bytes
\* that follow the header.
C8_FrameLayout ==
    (/\ call.op = "encode"
     /\ ret.ok
     /\ BLen(EncodeOf(call.message)) < 268435456) =>
        /\ ret.frame =
               BCat(FixedHeader_encode(
                        [command |-> CommandOf(call.message),
                         flags |-> FlagsOf(call.message),
                         remaining_length |-> BLen(EncodeOf(call.message))]),
                    EncodeOf(call.message))
        /\ BAt(ret.frame, 0) =
               WireCode(call.message.variant) * 16 + (FlagsOf(call.message) % 16)
        /\ FixedHeader_decode(ret.frame).ok
        /\ FixedHeader_decode(ret.frame).rest = EncodeOf(call.message)
        /\ FixedHeader_decode(ret.frame).val.remaining_length
               = BLen(FixedHeader_decode(ret.frame).rest)

\* C8 witness: ClientCodec.encode has framed a PUB whose command payload is
\* 2^28 - 1 bytes long, the longest a 4-byte remaining_length announces.
C8_Witness ==
    /\ call.op = "encode"
    /\ ret.ok
    /\ call.message.variant = "Pub"
    /\ BLen(EncodeOf(call.message)) = 268435455
    /\ BLen(ret.frame) = 268435455 + 5

\* The least number of 7-bit groups that hold v.
GroupCount(v) ==
    IF v <= 127 THEN 1 ELSE IF v <= 16383 THEN 2 ELSE IF v <= 2097151 THEN 3 ELSE 4

\* C9: for a value v of 0..0x0FFFFFFF put_varint writes the least number of
\* 7-bit groups (1 byte up to 127, 2 up to 16383, 3 up to 2097151, 4 above),
\* lowest group first, with the continuation bit on every group but the
\* last; read_varint on those bytes returns v and leaves the cursor on the
\* byte behind them.
C9_VarintRoundTrip ==
    (call.op = "varint_roundtrip" /\ call.value <= 268435455) =>
        /\ BLen(call.written) = GroupCount(call.value)
        /\ \A k \in 0..(GroupCount(call.value) - 1) :
               BAt(call.written, k) =
                   ((call.value \div Pow2(7 * k)) % 128)
                   + (IF k < GroupCount(call.value) - 1 THEN 128 ELSE 0)
        /\ ret = [ok |-> TRUE, val |-> call.value, rest |-> call.tail]

\* C9 witness: 0x0FFFFFFF has been written as four bytes and read back with
\* other bytes behind it.
C9_Witness ==
    /\ call.op = "varint_roundtrip"
    /\ call.value = 268435455
    /\ BLen(call.written) = 4
    /\ BLen(call.tail) = 2
    /\ ret.ok
    /\ ret.val = 268435455

\* The first n bytes of src all have the continuation bit.
AllContinue(src, n) == \A i \in 0..(n - 1) : BAt(src, i) >= 128

\* C10: read_varint takes at most 4 bytes from the buffer; when the first
\* four bytes all have the continuation bit it fails with
\* VariableLengthOverflow, with or without a fifth byte; when the buffer
\* ends after fewer than four bytes that all have the continuation bit it
\* fails with BufferTooShort{expected: 1, actual: 0}.
C10_VarintDecodeCap ==
    call.op = "read_varint" =>
        /\ (BLen(call.src) >= 4 /\ AllContinue(call.src, 4)) =>
               ret = [ok |-> FALSE, err |-> [kind |-> "VariableLengthOverflow"]]
        /\ (BLen(call.src) < 4 /\ AllContinue(call.src, BLen(call.src))) =>
               ret = [ok |-> FALSE,
                      err |-> [kind |-> "BufferTooShort", expected |-> 1,
                               actual |-> 0]]
        /\ ret.ok =>
               /\ BLen(call.src) - BLen(ret.rest) \in 1..4
               /\ ret.rest = BDrop(call.src, BLen(call.src) - BLen(ret.rest))

\* C10 witness: read_varint has answered VariableLengthOverflow to four
\* continuation bytes with a fifth byte behind them.
C10_Witness ==
    /\ call.op = "read_varint"
    /\ BLen(call.src) = 5
    /\ AllContinue(call.src, 4)
    /\ ~ret.ok
    /\ ret.err.kind = "VariableLengthOverflow"

-----------------------------------------------------------------------------
(* Properties of the encode side of the varint and of the fixed header.    *)

\* C11: put_varint and encode_variable_length write at least 1 and at most
\* 4 bytes for every value, and the fixed header in front of every encoded
\* frame is between 2 and 5 bytes long.
C11_EncodeCap ==
    /\ call.op = "varint_roundtrip" => BLen(call.written) \in 1..4
    /\ (call.op = "encode" /\ ret.ok) =>
           BLen(ret.frame) - BLen(EncodeOf(call.message)) \in 2..5

\* C12: for each of the ten commands, flags of 0..15 and a remaining_length
\* of 0..0x0FFFFFFF, FixedHeader::decode on the bytes of FixedHeader::encode
\* returns the same command, flags and remaining_length and leaves the cursor
\* on the byte behind them; flags above 15 come back as their low 4 bits and
\* leave the command nibble of byte 0 as it is.
C12_HeaderRoundTrip ==
    (call.op = "FixedHeader_roundtrip" /\ call.remaining_length <= 268435455) =>
        /\ ret.ok
        /\ ret.val.command = call.command
        /\ ret.val.remaining_length = call.remaining_length
        /\ ret.rest = call.tail
        /\ call.flags <= 15 => ret.val.flags = call.flags
        /\ call.flags > 15 => ret.val.flags = call.flags % 16
        /\ BAt(call.written, 0) \div 16 = CommandCode(call.command)

\* C12 witness: an ERR header with flags 0xFF and a remaining_length of
\* 0x0FFFFFFF has come back with flags 15, with other bytes behind it.
C12_Witness ==
    /\ call.op = "FixedHeader_roundtrip"
    /\ call.command = "ERR"
    /\ call.flags = 255
    /\ call.remaining_length = 268435455
    /\ BLen(call.tail) = 2
    /\ ret.ok
    /\ ret.val.flags = 15
    /\ ret.val.command = "ERR"

-----------------------------------------------------------------------------
(* Properties of the order of the topic checks, of the layer limit, of     *)
(* the layers and of the topic encoder.                                    *)

\* The number of '/' bytes in the runs in front of run k.
RECURSIVE SlashesBefore(_, _)
SlashesBefore(s, k) ==
    IF k = 1 THEN 0
    ELSE (IF s[k - 1][1] = 47 THEN s[k - 1][2] ELSE 0) + SlashesBefore(s, k - 1)

\* Some '/' that follows a '/' is among the first 8 separators.
EmptyLayerWithinLimit(s) ==
    \E k \in 1..Len(s) :
        s[k][1] = 47 /\ s[k][2] >= 2 /\ SlashesBefore(s, k) + 2 <= 8

\* The first rule the string s violates, in the order of the checks.
FirstViolation(s) ==
    IF BLen(s) = 0 \/ BLen(s) > 256 THEN "ExceedsMaxLength"
    ELSE IF s[1][1] = 47 THEN "LeadingSlash"
    ELSE IF s[Len(s)][1] = 47 THEN "TrailingSlash"
    ELSE IF EmptyLayerWithinLimit(s) THEN "EmptyLayer"
    ELSE IF ByteCount(s, 47) >= 8 THEN "ExceedsMaxLayerCount"
    ELSE IF ByteCount(s, 43) > 0 \/ ByteCount(s, 35) > 0
         THEN "WildcardInPublishTopic"
    ELSE "none"

\* C13: Topic::decode reports the first violated rule in the order length
\* (ExceedsMaxLength with the length, the empty string included), first byte
\* '/' (LeadingSlash), last byte '/' (TrailingSlash), then EmptyLayer or
\* ExceedsMaxLayerCount for the offending separator that comes first, and
\* WildcardInPublishTopic only for a string that passes all of these; "/" is
\* LeadingSlash and "a//" is TrailingSlash.  TopicFilter::decode reports the
\* same error for the rules in front of the wildcards.
C13_FirstViolation ==
    /\ call.op = "Topic_decode" =>
           /\ ret.ok <=> FirstViolation(call.raw) = "none"
           /\ ~ret.ok => ret.err.kind = FirstViolation(call.raw)
           /\ (~ret.ok /\ ret.err.kind = "ExceedsMaxLength") =>
                  ret.err.length = BLen(call.raw)
           /\ call.raw = <<<<47, 1>>>> => ret = [ok |-> FALSE, err |-> [kind |-> "LeadingSlash"]]
           /\ call.raw = <<<<97, 1>>, <<47, 2>>>> =>
                  ret = [ok |-> FALSE, err |-> [kind |-> "TrailingSlash"]]
    /\ (/\ call.op = "TopicFilter_decode"
        /\ FirstViolation(call.raw) \notin {"none", "WildcardInPublishTopic"}) =>
           /\ ~ret.ok
           /\ ret.err.kind = FirstViolation(call.raw)

\* C13 witness: Topic::decode has answered TrailingSlash to "+//", which
\* also has an empty layer and a wildcard.
C13_Witness ==
    /\ call.op = "Topic_decode"
    /\ call.raw = <<<<43, 1>>, <<47, 2>>>>
    /\ ~ret.ok
    /\ ret.err.kind = "TrailingSlash"

\* The byte offset of the k-th '/' of s, counted from 1, from offset i on.
RECURSIVE SlashOffset(_, _, _)
SlashOffset(s, k, i) ==
    IF BAt(s, i) = 47
    THEN IF k = 1 THEN i ELSE SlashOffset(s, k - 1, i + 1)
    ELSE SlashOffset(s, k, i + RunLeft(s, i))

\* C14: a string of exactly 7 separators that breaks no rule decodes with
\* layer_count = 8; a string of valid length with no '/' first or last, 8
\* separators or more and no empty layer among the first 8 fails with
\* ExceedsMaxLayerCount{count: 9}, however many layers it has; and a decoded
\* topic holds the offsets of its layer_count - 1 separators in the first
\* entries of its 7 slash positions and nothing in the others.
C14_LayerLimit ==
    call.op \in {"Topic_decode", "TopicFilter_decode"} =>
        /\ (/\ StructurallyValid(call.raw)
            /\ ByteCount(call.raw, 47) = 7
            /\ call.op = "Topic_decode" =>
                   ByteCount(call.raw, 43) = 0 /\ ByteCount(call.raw, 35) = 0
            /\ call.op = "TopicFilter_decode" => ~InEarlierLayer(call.raw, 35)) =>
               ret.ok /\ ret.val.wire.layer_count = 8
        /\ (/\ BLen(call.raw) \in 1..256
            /\ call.raw[1][1] # 47
            /\ call.raw[Len(call.raw)][1] # 47
            /\ ByteCount(call.raw, 47) >= 8
            /\ ~EmptyLayerWithinLimit(call.raw)) =>
               ret = [ok |-> FALSE,
                      err |-> [kind |-> "ExceedsMaxLayerCount", count |-> 9]]
        /\ ret.ok =>
               /\ DOMAIN ret.val.wire.slash_positions = 1..7
               /\ ret.val.wire.layer_count \in 1..8
               /\ \A k \in 1..7 :
                      ret.val.wire.slash_positions[k] =
                          IF k < ret.val.wire.layer_count
                          THEN SlashOffset(call.raw, k, 0)
                          ELSE 0

\* C14 witness: Topic::decode has answered ExceedsMaxLayerCount{count: 9} to
\* a topic of 10 layers.
C14_Witness ==
    /\ call.op = "Topic_decode"
    /\ ByteCount(call.raw, 47) = 9
    /\ ~EmptyLayerWithinLimit(call.raw)
    /\ ~ret.ok
    /\ ret.err = [kind |-> "ExceedsMaxLayerCount", count |-> 9]

\* The k-th '/'-delimited segment of s, counted from 1, of n segments.
Segment(s, k, n) ==
    BSlice(s,
           IF k = 1 THEN 0 ELSE SlashOffset(s, k - 1, 0) + 1,
           IF k = n THEN BLen(s) ELSE SlashOffset(s, k, 0))

\* The layers joined by '/'.
RECURSIVE Joined(_)
Joined(layers) ==
    IF Len(layers) = 1 THEN layers[1]
    ELSE BCat(layers[1], BCat(<<<<47, 1>>>>, Joined(Tail(layers))))

\* C15: on every decoded Topic or TopicFilter layer_count is the number of
\* '/' bytes plus 1; for every i below layer_count, layer(i) is the i-th
\* '/'-delimited segment of the raw bytes, is not empty and holds no '/';
\* and the layers joined by '/' are the raw bytes, also for a topic of 256
\* bytes with its separator at offset 254.
C15_LayerAccess ==
    (call.op = "layers" /\ ret.ok) =>
        /\ ret.layer_count = ByteCount(call.raw, 47) + 1
        /\ Len(ret.layers) = ret.layer_count
        /\ \A k \in 1..ret.layer_count :
               /\ ret.layers[k] = Segment(call.raw, k, ret.layer_count)
               /\ BLen(ret.layers[k]) >= 1
               /\ ~BContains(ret.layers[k], 47)
        /\ Joined(ret.layers) = call.raw

\* C15 witness: the layers of a decoded topic of 256 bytes whose one
\* separator is at offset 254 have been taken.
C15_Witness ==
    /\ call.op = "layers"
    /\ call.kind = "Topic"
    /\ BLen(call.raw) = 256
    /\ ByteCount(call.raw, 47) = 1
    /\ SlashOffset(call.raw, 1, 0) = 254
    /\ ret.ok
    /\ ret.layers = <<Rep(97, 254), Rep(98, 1)>>

\* C16: for an input that decodes, encode_to of the Topic or TopicFilter
\* writes the length as 2 bytes, high byte first, and the raw bytes: the
\* bytes that decode consumed; decode of those bytes returns the same raw
\* bytes, layer_count, layers and, for a filter, the same WildcardKind, and
\* consumes all of them.
C16_EncodeReplays ==
    (call.op = "reencode" /\ ret.ok) =>
        /\ BLen(ret.encoded) = 2 + BLen(call.raw)
        /\ BAt(ret.encoded, 0) = BLen(call.raw) \div 256
        /\ BAt(ret.encoded, 1) = BLen(call.raw) % 256
        /\ BDrop(ret.encoded, 2) = call.decoded.val.wire.raw
        /\ ret.encoded
               = BTake(call.src, BLen(call.src) - BLen(call.decoded.rest))
        /\ BCat(ret.encoded, call.decoded.rest) = call.src
        /\ ret.redecoded.ok
        /\ ret.redecoded.rest = <<>>
        /\ ret.redecoded.val.wire.raw = call.decoded.val.wire.raw
        /\ ret.redecoded.val.wire.layer_count = call.decoded.val.wire.layer_count
        /\ LayersOf(ret.redecoded) = LayersOf(call.decoded)
        /\ call.kind = "TopicFilter" =>
               ret.redecoded.val.wildcard = call.decoded.val.wildcard
        /\ ret.redecoded.val = call.decoded.val

\* C16 witness: a TopicFilter of 256 bytes that decoded in front of other
\* bytes has been encoded and decoded again.
C16_Witness ==
    /\ call.op = "reencode"
    /\ call.kind = "TopicFilter"
    /\ BLen(call.raw) = 256
    /\ BLen(call.src) = 260
    /\ ret.ok
    /\ BAt(ret.encoded, 0) = 1
    /\ BAt(ret.encoded, 1) = 0
    /\ ret.redecoded.ok

-----------------------------------------------------------------------------
(* Properties of the headers block, of CONNECT and of the decode errors.   *)

\* Every key of the entries is at most 255 bytes long and every value at
\* most 65535.
EntriesFit(entries) ==
    \A k \in 1..Len(entries) :
        BLen(entries[k][1]) <= 255 /\ BLen(entries[k][2]) <= 65535

\* C17: a PUB or MSG whose headers hold any sequence of entries with keys of
\* at most 255 bytes and values of at most 65535 bytes, in a frame whose
\* remaining_length takes at most 4 bytes, comes back from the peer's decode
\* with the same number of entries, the same keys and values, in the same
\* order, a key that was inserted twice included.
C17_HeadersRoundTrip ==
    (/\ call.op = "roundtrip"
     /\ call.message.variant \in {"Pub", "Msg"}
     /\ call.message.header.some
     /\ EntriesFit(call.message.header.val)
     /\ BLen(EncodeOf(call.message)) <= 268435455) =>
        /\ ret.ok
        /\ ret.val.header.some
        /\ Len(ret.val.header.val) = Len(call.message.header.val)
        /\ ret.val.header.val = call.message.header.val

\* The headers of a PUB or MSG whose block is at most 65535 bytes long come
\* back as they were, a key that was inserted twice included.
HeadersRoundTripWithinBlock ==
    (/\ call.op = "roundtrip"
     /\ call.message.variant \in {"Pub", "Msg"}
     /\ HeaderFits(call.message.header)
     /\ BLen(EncodeOf(call.message)) <= 268435455) =>
        /\ ret.ok
        /\ ret.val.header = call.message.header

\* The block is a sequence of whole entries: a key behind its 1-byte length
\* and a value behind its 2-byte length, one entry behind the other.
RECURSIVE WholeEntries(_)
WholeEntries(block) ==
    \/ block = <<>>
    \/ /\ BLen(block) >= 1 + BAt(block, 0) + 2
       /\ BLen(block) >= 1 + BAt(block, 0) + 2
                         + BAt(block, 1 + BAt(block, 0)) * 256
                         + BAt(block, 2 + BAt(block, 0))
       /\ WholeEntries(BDrop(block,
                             1 + BAt(block, 0) + 2
                             + BAt(block, 1 + BAt(block, 0)) * 256
                             + BAt(block, 2 + BAt(block, 0))))

\* C18: the decoder of a PUB or MSG reads the header entries from the block
\* of the length its 2-byte prefix announces and from nothing else: a block
\* that ends inside an entry fails with BufferTooShort whatever bytes the
\* frame holds behind the block; a block of whole entries never fails on
\* its entries; the entries that decode are, encoded again, the bytes of the
\* block, and the payload is read from the bytes behind the block.
C18_HeadersConfined ==
    call.op = "header_block" =>
        /\ ~WholeEntries(call.block) =>
               ~ret.ok /\ ret.err.kind = "BufferTooShort"
        /\ WholeEntries(call.block) =>
               (ret.ok <=> (/\ read_varint(call.after).ok
                            /\ BLen(read_varint(call.after).rest)
                                   >= read_varint(call.after).val))
        /\ ret.ok =>
               /\ ret.val.header.some
               /\ Headers_encode_to(ret.val.header.val) = call.block
               /\ ret.val.payload =
                      BTake(read_varint(call.after).rest,
                            read_varint(call.after).val)

\* C18 witness: a PUB whose block holds the key "k" and the first byte of a
\* value prefix has failed with BufferTooShort, although the bytes behind
\* the block would complete the entry.
C18_Witness ==
    /\ call.op = "header_block"
    /\ call.variant = "Pub"
    /\ call.block = <<<<1, 1>>, <<107, 1>>, <<0, 1>>>>
    /\ call.after = <<<<1, 1>>, <<107, 1>>>>
    /\ ~ret.ok
    /\ ret.err = [kind |-> "BufferTooShort", expected |-> 2, actual |-> 1]

\* Connect::decode was called with the auth flag on a buffer whose auth type
\* byte is neither 1 nor 2.
UnknownTypeCall ==
    /\ call.op = "Connect_decode"
    /\ (call.flags \div 2) % 2 = 1
    /\ BLen(call.src) >= 2
    /\ BAt(call.src, 1) \notin {1, 2}

\* The varint auth_payload_length behind the auth type byte and that many
\* bytes behind it are in the buffer.
AuthPayloadPresent ==
    /\ read_varint(BDrop(call.src, 2)).ok
    /\ BLen(read_varint(BDrop(call.src, 2)).rest)
           >= read_varint(BDrop(call.src, 2)).val

\* C19 as stated: Connect::decode with the auth flag and an auth type byte
\* that is neither 1 nor 2 fails with UnknownAuthType of that byte.
C19_UnknownAuthType ==
    UnknownTypeCall =>
        ret = [ok |-> FALSE,
               err |-> [kind |-> "UnknownAuthType", byte |-> BAt(call.src, 1)]]

\* C19 as amended: Connect::decode with the auth flag and an auth type byte
\* that is neither 1 nor 2 fails; with UnknownAuthType of that byte when the
\* varint auth_payload_length and that many bytes follow the type byte, and
\* with BufferTooShort or VariableLengthOverflow when they do not.
C19_UnknownAuthTypeBehindPayload ==
    UnknownTypeCall =>
        IF AuthPayloadPresent
        THEN ret = [ok |-> FALSE,
                    err |-> [kind |-> "UnknownAuthType",
                             byte |-> BAt(call.src, 1)]]
        ELSE /\ ~ret.ok
             /\ ret.err.kind \in {"BufferTooShort", "VariableLengthOverflow"}

\* C19 witness: Connect::decode has answered UnknownAuthType(3) to the auth
\* type 3 in front of an auth payload of 2 bytes.
C19_Witness ==
    /\ UnknownTypeCall
    /\ call.src = <<<<1, 1>>, <<3, 1>>, <<2, 1>>, <<0, 2>>>>
    /\ ret = [ok |-> FALSE, err |-> [kind |-> "UnknownAuthType", byte |-> 3]]

\* C20: a decode of ServerCodec or ClientCodec that fails on a primitive
\* read fails with BufferTooShort or VariableLengthOverflow themselves, also
\* when the read is the length-prefixed read of a topic, a reply_to or a
\* topic filter: the error inside an InvalidTopic is never the failure of a
\* read.
C20_ReadFailuresUnwrapped ==
    (call.op \in {"decode", "header_block"} /\ ~ret.ok) =>
        /\ ret.err.kind \in {"BufferTooShort", "VariableLengthOverflow",
                             "UnknownCommand", "UnsupportedCommand",
                             "UnknownAuthType", "InvalidTopic"}
        /\ ret.err.kind = "InvalidTopic" => ret.err.topic.kind # "Wire"

-----------------------------------------------------------------------------
(* Properties of the flags, of the PUB payload and of the decoders on any  *)
(* input.                                                                  *)

\* 1 if the condition holds, else 0.
Bit(condition) == IF condition THEN 1 ELSE 0

\* The flags the optional sections of a message stand for: bit 0 and bit 1.
SectionFlags(message) ==
    CASE message.variant = "Connect" ->
             Bit(message.verbose) + 2 * Bit(message.auth.some)
      [] message.variant \in {"Pub", "Msg"} ->
             Bit(message.reply_to.some) + 2 * Bit(message.header.some)
      [] message.variant = "Sub" -> Bit(message.queue_group.some)
      [] OTHER -> 0

\* C21: the flags in byte 0 of every encoded frame have bit 0 and bit 1 set
\* exactly when the optional section of that bit is present (CONNECT:
\* verbose, auth; PUB and MSG: reply_to, header; SUB: queue_group), are 0
\* for INFO and UNSUB and never have bit 2 or bit 3; and a decode that
\* succeeds returns an optional section exactly when its flag bit was set,
\* whatever the other bits and the bytes of the payload are.
C21_FlagsMirrorSections ==
    /\ (call.op = "encode" /\ ret.ok) =>
           /\ BAt(ret.frame, 0) % 16 = SectionFlags(call.message)
           /\ BAt(ret.frame, 0) % 16 < 4
           /\ call.message.variant \in {"Info", "Unsub"} =>
                  BAt(ret.frame, 0) % 16 = 0
    /\ (call.op = "flag_decode" /\ ret.ok) =>
           /\ ret.val.variant = call.message.variant
           /\ SectionFlags(ret.val) =
                  IF call.message.variant \in {"Info", "Unsub"} THEN 0
                  ELSE IF call.message.variant = "Sub" THEN call.flags % 2
                  ELSE call.flags % 4

\* C21 witness: a PUB payload that holds a reply_to has been decoded under
\* flags 0 and has come back without a reply_to.
C21_Witness ==
    /\ call.op = "flag_decode"
    /\ call.message.variant = "Pub"
    /\ call.message.reply_to.some
    /\ call.flags = 0
    /\ ret.ok
    /\ ~ret.val.reply_to.some

\* A topic on the wire: its length as 2 bytes and its bytes.
TopicBytes(topic) == BCat(FromSeq(<<BLen(topic.wire.raw) \div 256,
                                    BLen(topic.wire.raw) % 256>>),
                          topic.wire.raw)

\* C22: the payload of an encoded PUB is the topic, the reply_to topic under
\* flag bit 0, the headers block behind its 2-byte length under flag bit 1,
\* the varint payload_length and payload_length payload bytes, in this
\* order; Pub::decode reads the fields in the same order and leaves the
\* bytes behind the payload; a payload_length above the bytes that remain
\* fails with BufferTooShort{expected: payload_length, actual: remaining}
\* and returns no payload.
C22_PubFieldOrder ==
    /\ (/\ call.op = "encode"
        /\ ret.ok
        /\ call.message.variant = "Pub"
        /\ FieldsFit(call.message)
        /\ BLen(EncodeOf(call.message)) <= 268435455) =>
           FixedHeader_decode(ret.frame).rest =
               BCat(TopicBytes(call.message.topic),
               BCat(IF BAt(ret.frame, 0) % 2 = 1
                    THEN TopicBytes(call.message.reply_to.val) ELSE <<>>,
               BCat(IF (BAt(ret.frame, 0) \div 2) % 2 = 1
                    THEN BCat(FromSeq(<<
                                 BLen(Headers_encode_to(call.message.header.val)) \div 256,
                                 BLen(Headers_encode_to(call.message.header.val)) % 256>>),
                              Headers_encode_to(call.message.header.val))
                    ELSE <<>>,
               BCat(put_varint(BLen(call.message.payload)),
                    call.message.payload))))
    /\ call.op = "Pub_decode" =>
           IF call.declared > call.available
           THEN ret = [ok |-> FALSE,
                       err |-> [kind |-> "BufferTooShort",
                                expected |-> call.declared,
                                actual |-> call.available]]
           ELSE /\ ret.ok
                /\ ret.val.topic.wire.raw = <<<<97, 1>>>>
                /\ ret.val.reply_to.some <=> call.flags % 2 = 1
                /\ ret.val.reply_to.some =>
                       ret.val.reply_to.val.wire.raw = <<<<114, 1>>>>
                /\ ret.val.header.some <=> (call.flags \div 2) % 2 = 1
                /\ ret.val.header.some =>
                       ret.val.header.val = << << <<<<107, 1>>>>, <<<<118, 1>>>> >> >>
                /\ ret.val.payload = Rep(112, call.declared)
                /\ ret.rest = Rep(112, call.available - call.declared)

\* C22 witness: Pub::decode has answered BufferTooShort{expected: 300,
\* actual: 3} to a payload with a reply_to, a headers block and 3 of the
\* 300 bytes it declares.
C22_Witness ==
    /\ call.op = "Pub_decode"
    /\ call.flags = 3
    /\ call.declared = 300
    /\ call.available = 3
    /\ ret = [ok |-> FALSE,
              err |-> [kind |-> "BufferTooShort", expected |-> 300, actual |-> 3]]

\* The fields of each variant of Message.
MessageFields(variant) ==
    CASE variant = "Info" -> {"variant", "version", "max_payload", "server_id",
                              "server_name", "auth_required", "headers"}
      [] variant = "Connect" -> {"variant", "version", "verbose", "auth"}
      [] variant = "Pub" -> {"variant", "topic", "reply_to", "header", "payload"}
      [] variant = "Sub" -> {"variant", "topic", "subscription_id", "queue_group"}
      [] variant = "Unsub" -> {"variant", "subscription_id"}
      [] variant = "Msg" -> {"variant", "topic", "subscription_id", "reply_to",
                             "header", "payload"}

\* The separator offsets a decoded topic uses lie inside its bytes and
\* inside the array of MAX_SLASH_COUNT entries.
WireInBounds(wire) ==
    /\ wire.layer_count \in 1..MAXIMUM_TOPIC_LAYER
    /\ DOMAIN wire.slash_positions = 1..MAX_SLASH_COUNT
    /\ \A k \in 1..(wire.layer_count - 1) :
           /\ wire.slash_positions[k] < BLen(wire.raw)
           /\ BAt(wire.raw, wire.slash_positions[k]) = LAYER_SEPARATOR

WireErrorKinds == {"BufferTooShort", "VariableLengthOverflow"}

TopicErrorKinds ==
    {"ExceedsMaxLength", "ExceedsMaxLayerCount", "LeadingSlash", "TrailingSlash",
     "EmptyLayer", "WildcardInPublishTopic", "MultiLayerWildcardNotTerminal"}

\* A TopicError of one of the variants of the enum.
IsTopicError(e) ==
    /\ "kind" \in DOMAIN e
    /\ \/ e.kind \in TopicErrorKinds
       \/ e.kind = "Wire" /\ "kind" \in DOMAIN e.wire /\ e.wire.kind \in WireErrorKinds

\* A DecodeError of one of the variants of the enum.
IsDecodeError(e) ==
    /\ "kind" \in DOMAIN e
    /\ \/ e.kind \in {"BufferTooShort", "VariableLengthOverflow", "UnknownCommand",
                      "UnsupportedCommand", "UnknownAuthType"}
       \/ e.kind = "InvalidTopic" /\ IsTopicError(e.topic)

\* C23: on every input, ServerCodec::decode and ClientCodec::decode return
\* Ok with a Message that has every field of its variant, or Err with a
\* DecodeError, and Topic::decode and TopicFilter::decode return Ok with a
\* topic whose separator offsets lie inside its bytes and inside the
\* MAX_SLASH_COUNT-entry array, or Err with a TopicError; no call panics.
C23_DecodeTotal ==
    /\ call.op \in {"decode", "flag_decode", "header_block"} =>
           IF ret.ok
           THEN /\ DOMAIN ret = {"ok", "val"}
                /\ DOMAIN ret.val = MessageFields(ret.val.variant)
           ELSE /\ DOMAIN ret = {"ok", "err"}
                /\ ~Panicked(ret)
                /\ IsDecodeError(ret.err)
    /\ call.op \in {"Topic_decode", "TopicFilter_decode"} =>
           IF ret.ok
           THEN /\ DOMAIN ret = {"ok", "val", "rest"}
                /\ WireInBounds(ret.val.wire)
                /\ ret.rest = call.tail
           ELSE /\ DOMAIN ret = {"ok", "err"}
                /\ ~Panicked(ret)
                /\ IsTopicError(ret.err)

\* C23 witness: Topic::decode has answered ExceedsMaxLength{0} to an empty
\* topic in front of other bytes, the string on which raw[0] would be out
\* of range.
C23_Witness ==
    /\ call.op = "Topic_decode"
    /\ call.raw = <<>>
    /\ call.tail # <<>>
    /\ ret = [ok |-> FALSE, err |-> [kind |-> "ExceedsMaxLength", length |-> 0]]

\* C24: the decode of an accepted frame does not change when another valid
\* varint stands in the place of remaining_length and when other bytes
\* follow the payload: the result is the Message of the original frame.
C24_RemainingLengthUnchecked ==
    (call.op = "reframed" /\ call.accepted.ok) => ret = call.accepted

\* C24 witness: a PUB frame with a payload, with remaining_length 0 and two
\* bytes behind the payload, has decoded to the Message of the original.
C24_Witness ==
    /\ call.op = "reframed"
    /\ call.message.variant = "Pub"
    /\ BLen(call.message.payload) > 0
    /\ call.varint = <<<<0, 1>>>>
    /\ BLen(call.tail) = 2
    /\ call.accepted.ok
    /\ ret.ok
    /\ ret.val = call.message

\* The auth_payload_length varint of a CONNECT payload, behind the version
\* and the auth type.
AuthLength(src) == read_varint(BDrop(src, 2))

\* The bytes of a CONNECT payload up to the end of its auth payload:
\* version, auth type, the varint and auth_payload_length bytes.
AuthSection(src) ==
    BTake(src, BLen(src) - BLen(AuthLength(src).rest) + AuthLength(src).val)

\* The number of bytes of the encoded credentials of an Auth.
CredentialBytes(auth) ==
    IF auth.tag = "Password"
    THEN 1 + BLen(auth.username) + 1 + BLen(auth.password)
    ELSE 2 + BLen(auth.token)

\* C25: Connect::decode with the auth bit set fails with BufferTooShort
\* {expected: auth_payload_length, actual: remaining} unless that many bytes
\* remain; it reads the credentials from these bytes alone, so that its
\* result is the one it gives when the buffer ends with the auth payload,
\* and a username prefix above what is left of the auth payload fails with
\* BufferTooShort whatever follows; on success the cursor has advanced by
\* 1 + 1 + the size of the varint + auth_payload_length.  Connect::encode
\* writes as auth_payload_length the number of bytes of the credentials.
C25_AuthPayloadConfined ==
    /\ (/\ call.op = "Connect_decode"
        /\ BitSet(call.flags, HAS_AUTH_BIT)
        /\ BLen(call.src) >= 2
        /\ AuthLength(call.src).ok) =>
           IF BLen(AuthLength(call.src).rest) < AuthLength(call.src).val
           THEN ret = Err(BufferTooShort(AuthLength(call.src).val,
                                         BLen(AuthLength(call.src).rest)))
           ELSE /\ Decoded(ret) =
                       Decoded(Connect_decode(call.flags, AuthSection(call.src)))
                /\ ret.ok =>
                       /\ ret.rest = BDrop(call.src, BLen(AuthSection(call.src)))
                       /\ BLen(call.src) - BLen(ret.rest) =
                              1 + 1
                              + (BLen(call.src) - 2 - BLen(AuthLength(call.src).rest))
                              + AuthLength(call.src).val
                /\ (/\ BAt(call.src, 1) = AUTH_TYPE_PASSWORD
                    /\ AuthLength(call.src).val >= 1
                    /\ BAt(AuthLength(call.src).rest, 0)
                           > AuthLength(call.src).val - 1) =>
                       ret = Err(BufferTooShort(BAt(AuthLength(call.src).rest, 0),
                                                AuthLength(call.src).val - 1))
    /\ (/\ call.op = "encode"
        /\ ret.ok
        /\ call.message.variant = "Connect"
        /\ call.message.auth.some) =>
           /\ AuthLength(FixedHeader_decode(ret.frame).rest).ok
           /\ AuthLength(FixedHeader_decode(ret.frame).rest).val =
                  CredentialBytes(call.message.auth.val)
           /\ BLen(AuthLength(FixedHeader_decode(ret.frame).rest).rest) =
                  CredentialBytes(call.message.auth.val)

\* C25 witness: Connect::decode has answered BufferTooShort{expected: 2,
\* actual: 0} to a password auth payload of the single byte 2, the prefix
\* of a username, in front of two more bytes of the frame.
C25_Witness ==
    /\ call.op = "Connect_decode"
    /\ call.flags = 2
    /\ call.src = FromSeq(<<1, 1, 1, 2, 0, 0>>)
    /\ ret = Err(BufferTooShort(2, 0))

\* The length a big-endian prefix of `width` bytes declares.
DeclaredLength(src, width) ==
    IF width = 1 THEN BAt(src, 0) ELSE BAt(src, 0) * 256 + BAt(src, 1)

\* C26: read_length_prefixed_u8 / _u16 on a buffer that holds the prefix
\* fail with BufferTooShort{expected: n, actual: the bytes behind the
\* prefix} when fewer than the declared n bytes follow the prefix;
\* otherwise they return the next n bytes and leave the cursor prefix
\* width + n bytes on, in front of every later byte; n = 0 succeeds with
\* the empty string.
C26_PrefixedReadExact ==
    (call.op = "read_length_prefixed" /\ BLen(call.src) >= call.width) =>
        IF BLen(call.src) - call.width < DeclaredLength(call.src, call.width)
        THEN ret = [ok |-> FALSE,
                    err |-> [kind |-> "BufferTooShort",
                             expected |-> DeclaredLength(call.src, call.width),
                             actual |-> BLen(call.src) - call.width]]
        ELSE /\ ret.ok
             /\ BLen(ret.val) = DeclaredLength(call.src, call.width)
             /\ BCat(ret.val, ret.rest) = BDrop(call.src, call.width)
             /\ BLen(call.src) - BLen(ret.rest) =
                    call.width + DeclaredLength(call.src, call.width)
             /\ DeclaredLength(call.src, call.width) = 0 => ret.val = <<>>

\* C26 witness: read_length_prefixed_u16 has answered BufferTooShort
\* {expected: 256, actual: 255} to the prefix 01 00 in front of 255 bytes.
C26_Witness ==
    /\ call.op = "read_length_prefixed"
    /\ call.width = 2
    /\ call.src = BCat(FromSeq(<<1, 0>>), Rep(97, 255))
    /\ ret = [ok |-> FALSE,
              err |-> [kind |-> "BufferTooShort", expected |-> 256, actual |-> 255]]

\* C27: put_length_prefixed_u8 of n bytes writes the byte n mod 256 and the
\* n bytes, put_length_prefixed_u16 writes n mod 65536 as 2 bytes, high byte
\* first, and the n bytes, whatever n is; Info::encode writes server_id and
\* server_name in the same way; for n inside the range of the field the
\* prefix is n.
C27_PrefixTruncated ==
    /\ call.op = "put_length_prefixed" =>
           /\ BLen(ret.written) = call.width + BLen(call.bytes)
           /\ BDrop(ret.written, call.width) = call.bytes
           /\ DeclaredLength(ret.written, call.width) =
                  IF call.width = 1 THEN BLen(call.bytes) % 256
                  ELSE BLen(call.bytes) % 65536
           /\ BLen(call.bytes) < (IF call.width = 1 THEN 256 ELSE 65536) =>
                  DeclaredLength(ret.written, call.width) = BLen(call.bytes)
    /\ (call.op = "encode" /\ ret.ok /\ call.message.variant = "Info") =>
           /\ BAt(FixedHeader_decode(ret.frame).rest, 5) =
                  BLen(call.message.server_id) % 256
           /\ BSlice(FixedHeader_decode(ret.frame).rest, 6,
                     6 + BLen(call.message.server_id)) = call.message.server_id
           /\ BAt(FixedHeader_decode(ret.frame).rest,
                  6 + BLen(call.message.server_id)) =
                  BLen(call.message.server_name) % 256
           /\ BSlice(FixedHeader_decode(ret.frame).rest,
                     7 + BLen(call.message.server_id),
                     7 + BLen(call.message.server_id)
                       + BLen(call.message.server_name)) =
                  call.message.server_name

\* C27 witness: put_length_prefixed_u8 has written the prefix 44 (300 mod
\* 256) and all 300 bytes of a string.
C27_Witness ==
    /\ call.op = "put_length_prefixed"
    /\ call.impl = "protocol"
    /\ call.width = 1
    /\ BLen(call.bytes) = 300
    /\ BAt(ret.written, 0) = 44
    /\ BLen(ret.written) = 301

\* C28: on every buffer TopicFilter::decode succeeds with WildcardKind::None
\* exactly if Topic::decode succeeds, and then the filter and the topic have
\* the same bytes, the same layer_count and the same layers and leave the
\* same cursor.
C28_ExactFilterIsTopic ==
    call.op = "topic_and_filter" =>
        /\ (ret.filter.ok /\ ret.filter.val.wildcard = "None") <=> ret.topic.ok
        /\ ret.topic.ok =>
               /\ ret.filter.val.wire.raw = ret.topic.val.wire.raw
               /\ ret.filter.val.wire.layer_count = ret.topic.val.wire.layer_count
               /\ ret.filter_layers.layer_count = ret.topic_layers.layer_count
               /\ ret.filter_layers.layers = ret.topic_layers.layers
               /\ ret.filter.rest = ret.topic.rest

\* A second case of C28: "a+b" has decoded as a filter of kind SingleLayer and has
\* failed as a topic with WildcardInPublishTopic.
C28_WildcardWitness ==
    /\ call.op = "topic_and_filter"
    /\ call.src = FromSeq(<<0, 3, 97, 43, 98>>)
    /\ ret.filter.ok
    /\ ret.filter.val.wildcard = "SingleLayer"
    /\ ~ret.topic.ok
    /\ ret.topic.err.kind = "WildcardInPublishTopic"

\* C28 witness: "a/a" has decoded as a filter of kind None and as
\* a topic, both of two layers.
C28_Witness ==
    /\ call.op = "topic_and_filter"
    /\ call.src = FromSeq(<<0, 3, 97, 47, 97>>)
    /\ ret.filter.ok
    /\ ret.filter.val.wildcard = "None"
    /\ ret.topic.ok
    /\ ret.topic_layers.layer_count = 2

\* C29: decode_variable_length, the protocol crate's read_varint and the
\* common crate's read_varint return on every buffer the same value behind
\* the same number of bytes, or the same error, which is BufferTooShort
\* {expected: 1, actual: 0} or VariableLengthOverflow; encode_variable_length
\* and the two put_varint write the same bytes for every value.
C29_VarintsAgree ==
    /\ call.op = "read_varint_all" =>
           /\ \A impl \in VarintImpls : ret.read[impl] = ret.read["header"]
           /\ ret.read["header"].ok =>
                  BLen(call.src) - BLen(ret.read["header"].rest) \in 1..4
           /\ ~ret.read["header"].ok =>
                  ret.read["header"].err \in
                      {[kind |-> "BufferTooShort", expected |-> 1, actual |-> 0],
                       [kind |-> "VariableLengthOverflow"]}
    /\ call.op = "put_varint_all" =>
           \A impl \in VarintImpls : ret.written[impl] = ret.written["header"]

\* C29 witness: the three readers have answered VariableLengthOverflow to
\* five bytes of which the first four have the continuation bit.
C29_Witness ==
    /\ call.op = "read_varint_all"
    /\ call.src = FromSeq(<<128, 128, 128, 128, 0>>)
    /\ \A impl \in VarintImpls :
           ret.read[impl] = [ok |-> FALSE, err |-> [kind |-> "VariableLengthOverflow"]]

-----------------------------------------------------------------------------
(* The passes of the decode loops, counted as the loops run.               *)

\* The loop of decode_variable_length with room for a fifth pass.
RECURSIVE decode_variable_length_passes_five(_, _)
decode_variable_length_passes_five(src, iter) ==
    IF iter >= VARINT_MAX_BYTES + 1 THEN iter
    ELSE IF BLen(src) = 0 THEN iter + 1
    ELSE IF ~BitSet(BAt(src, 0), VARINT_CONTINUATION_BIT) THEN iter + 1
    ELSE decode_variable_length_passes_five(BDrop(src, 1), iter + 1)

\* The number of passes the for loop of decode_variable_length starts on
\* src, from pass `iter` on: a pass ends the loop when nothing remains or
\* when the byte has no continuation bit.
RECURSIVE decode_variable_length_passes(_, _)
decode_variable_length_passes(src, iter) ==
    IF iter >= VARINT_MAX_BYTES THEN iter
    ELSE IF BLen(src) = 0 THEN iter + 1
    ELSE IF ~BitSet(BAt(src, 0), VARINT_CONTINUATION_BIT) THEN iter + 1
    ELSE decode_variable_length_passes(BDrop(src, 1), iter + 1)

\* The number of bytes the for loop of scan_slashes takes from raw, from
\* byte offset i on: the loop ends at the end of raw or with an error at
\* the byte it has just taken.
RECURSIVE scan_slashes_visits(_, _, _, _)
scan_slashes_visits(raw, i, slash_count, prev_was_slash) ==
    IF i >= BLen(raw) THEN i
    ELSE IF BAt(raw, i) = LAYER_SEPARATOR
         THEN IF prev_was_slash \/ slash_count >= MAX_SLASH_COUNT THEN i + 1
              ELSE scan_slashes_visits(raw, i + 1, slash_count + 1, TRUE)
         ELSE scan_slashes_visits(raw, i + RunLeft(raw, i), slash_count, FALSE)

\* The number of passes of the loop of Headers::decode_from that read a key
\* and a value, from `completed` passes on.
RECURSIVE Headers_decode_completed(_, _)
Headers_decode_completed(src, completed) ==
    IF BLen(src) = 0 THEN completed
    ELSE IF ~read_length_prefixed_u8(src).ok THEN completed
    ELSE IF ~read_length_prefixed_u16(read_length_prefixed_u8(src).rest).ok
         THEN completed
    ELSE Headers_decode_completed(
             read_length_prefixed_u16(read_length_prefixed_u8(src).rest).rest,
             completed + 1)

\* C30: the loop of decode_variable_length starts at most 4 passes, one for
\* each byte it reads; the loop of scan_slashes takes each byte of the
\* topic at most once, and every byte when the scan succeeds; the loop of
\* the Headers decode completes at most block size / 3 passes, one for each
\* entry it returns, and ends with the block exhausted or with an error.
C30_LoopsBounded ==
    /\ (call.op = "read_varint" /\ call.impl = "header") =>
           /\ decode_variable_length_passes(call.src, 0) <= VARINT_MAX_BYTES
           /\ decode_variable_length_passes(call.src, 0) <= BLen(call.src) + 1
           /\ ret.ok =>
                  decode_variable_length_passes(call.src, 0) =
                      BLen(call.src) - BLen(ret.rest)
    /\ call.op = "Topic_decode" =>
           /\ scan_slashes_visits(call.raw, 0, 0, FALSE) <= BLen(call.raw)
           /\ ret.ok => scan_slashes_visits(call.raw, 0, 0, FALSE) = BLen(call.raw)
    /\ call.op = "header_block" =>
           /\ Headers_decode_completed(call.block, 0) * 3 <= BLen(call.block)
           /\ Headers_decode_from(call.block).ok =>
                  /\ Headers_decode_from(call.block).rest = <<>>
                  /\ Len(Headers_decode_from(call.block).val) =
                         Headers_decode_completed(call.block, 0)
           /\ (ret.ok /\ ret.val.header.some) =>
                  Len(ret.val.header.val) * 3 <= BLen(call.block)

\* C30 witness: decode_variable_length has answered VariableLengthOverflow
\* after 4 passes to five bytes of which the first four have the
\* continuation bit.
C30_Witness ==
    /\ call.op = "read_varint"
    /\ call.impl = "header"
    /\ call.src = FromSeq(<<128, 128, 128, 128, 0>>)
    /\ decode_variable_length_passes(call.src, 0) = 4
    /\ ret = [ok |-> FALSE, err |-> [kind |-> "VariableLengthOverflow"]]

====
